---- MODULE Spec2Model ----
(***************************************************************************)
(* Lucius website chat handler (Azure Functions, Node): the prompt-pack    *)
(* cache of src/unnamed/part_004 (lines 1-589), its local-docs fallback    *)
(* and the POST path that uses them.                                       *)
(*                                                                         *)
(* Texts are sequences of character codes; code 0 is a whitespace          *)
(* character, every other code a visible character.  JavaScript's null is  *)
(* the one-element sequence Null.                                          *)
(***************************************************************************)
EXTENDS Integers, Sequences, FiniteSets, TLC

\* ------------------------------------------------------------- bounds
\* Handler activations that can be suspended at an await at the same time.
NumReq == 2
\* POST requests accepted in one behaviour.
MaxReqs == 3
\* Last value of the clock (Date.now()).
MaxTime == 1
\* Last revision of the packs published on the website.
MaxVer == 1
\* Last modification time a local doc file gets.
MaxMtime == 1
\* Last modification time of a local doc file that is rewritten in place.
MaxTouch == 2
\* Pack fetches and local reads, per behaviour, that go wrong (a rejected
\* request, a non-2xx status, a blank body, a file that cannot be read).
MaxFaults == 1
\* Characters by which a message or a reply exceeds the cap of its
\* transcript field.
MaxOver == 1

Reqs == 1..NumReq
Layers == <<"core", "systemDesigner", "websiteOverlay">>
LayerSet == {"core", "systemDesigner", "websiteOverlay"}
Docs == {"engineeringModel", "engineeringResponses"}

\* ------------------------------------------------------------- texts
Null == <<-1>>
WS == 0

IsString(t) == t # Null
\* JavaScript truthiness of a string-or-null value.
Truthy(t) == t # Null /\ t # <<>>
\* a || b on string-or-null values.
Or(a, b) == IF Truthy(a) THEN a ELSE b

RECURSIVE TrimStart(_)
TrimStart(s) ==
  IF s = <<>> THEN <<>>
  ELSE IF Head(s) = WS THEN TrimStart(Tail(s)) ELSE s

RECURSIVE TrimEnd(_)
TrimEnd(s) ==
  IF s = <<>> THEN <<>>
  ELSE IF s[Len(s)] = WS THEN TrimEnd(SubSeq(s, 1, Len(s) - 1)) ELSE s

\* String.prototype.trim
Trim(s) == TrimEnd(TrimStart(s))

\* Buffer.byteLength(text, "utf8") of a text of one-byte characters.
ByteLength(s) == Len(s)

LayerIndex(l) == CHOOSE i \in 1..3 : Layers[i] = l
DocIndex(d) == IF d = "engineeringModel" THEN 1 ELSE 2

\* What the website serves for pack l at revision v: the pack text with
\* surrounding whitespace.
RemoteBody(l, v) == <<WS, 10 * LayerIndex(l) + v, WS>>
\* A response body that is blank after trimming.
BlankBody == <<WS>>
\* The content of local doc d written at modification time m (m >= 1);
\* revisions written at even times hold whitespace only.
FileText(d, m) == IF m % 2 = 0 THEN <<WS>> ELSE <<WS, 50 + 10 * DocIndex(d) + m>>

\* ------------------------------------------------------------- configuration
\* process.env as read at module load (part_004 lines 22-41): the TTL, the two
\* environment fallbacks, the pack URLS and whether the API key is set.  A
\* pack URL is "ok" (the website has the pack), "missing" (the website answers
\* 404 for it) or "malformed" (new URL throws on it).
AllUrlsOk == [l \in LayerSet |-> "ok"]
Configs ==
  { [ttl |-> 1,  prompt |-> <<>>,       kb |-> <<>>,   key |-> TRUE,
     urls |-> AllUrlsOk],
    [ttl |-> 0,  prompt |-> <<WS, 91>>, kb |-> <<>>,   key |-> TRUE,
     urls |-> [AllUrlsOk EXCEPT !["systemDesigner"] = "missing", !["websiteOverlay"] = "malformed"]],
    [ttl |-> -1, prompt |-> <<>>,       kb |-> <<92>>, key |-> FALSE,
     urls |-> AllUrlsOk] }

VARIABLES
  PACK_TTL_MS, ENV_SYSTEM_PROMPT, ENV_KB, PACK_URLS, OPENAI_API_KEY,
  now, remoteVer, fs,
  _cachedLocalDocs, _cachedLocalKey, _packCache,
  pc, userText, localDocs, meta, text, org, packs, res, io, upstream,
  req, logged, diag,
  consent, busy, open, messages, shown,
  reqCount, faults, servedExpiry

config == <<PACK_TTL_MS, ENV_SYSTEM_PROMPT, ENV_KB, PACK_URLS, OPENAI_API_KEY>>
world == <<now, remoteVer, fs>>
caches == <<_cachedLocalDocs, _cachedLocalKey, _packCache>>
locals == <<pc, userText, localDocs, meta, text, org, packs, res, io, upstream, req, logged, diag>>
\* history: the requests started, the faults met, and for each invocation
\* the expiresAt of the cache entry its packs came from (0: none)
ghost == <<reqCount, faults, servedExpiry>>
\* state.consent, state.busy, state.open and state.messages of the chat widget,
\* and the message elements its container shows
widget == <<consent, busy, open, messages, shown>>
vars == <<config, world, caches, locals, ghost, widget>>

\* ------------------------------------------------------------- local docs
NoPath == "null"
DocPath(d) == IF fs[d] > 0 THEN d ELSE NoPath
\* _cachedLocalDocs = null, _cachedLocalKey = null (lines 44-45)
NoDocs ==
  [engineeringModelPath |-> NoPath, engineeringResponsesPath |-> NoPath,
   engineeringModel |-> <<-2>>, engineeringResponses |-> <<-2>>]
NoKey == [d \in Docs |-> -1]

\* The cache key of loadLuciusDocs: per doc "missing" (0) or path and mtime.
DocsKey == [d \in Docs |-> fs[d]]

\* safeReadUtf8 of a matched path: the file's text, or null when the read throws.
SafeReadUtf8(d, readOk) == IF readOk THEN FileText(d, fs[d]) ELSE Null

\* A cache test that ignores the key.
LocalDocsCachedForever == _cachedLocalDocs # NoDocs

\* line 125
LocalDocsCached == _cachedLocalDocs # NoDocs /\ _cachedLocalKey = DocsKey

\* This call of loadLuciusDocs reads at least one file.
ReadsFiles == ~LocalDocsCached /\ \E d \in Docs : fs[d] > 0
\* The read outcomes such a call can meet while fewer than budget faults
\* have happened.
ReadOutcomes(budget) == IF ReadsFiles /\ faults < budget THEN BOOLEAN ELSE {TRUE}

\* loadLuciusDocs: the value returned (and cached).
LoadLuciusDocs(readOk) ==
  IF LocalDocsCached THEN _cachedLocalDocs
  ELSE [engineeringModelPath |-> DocPath("engineeringModel"),
        engineeringResponsesPath |-> DocPath("engineeringResponses"),
        engineeringModel |->
          IF fs["engineeringModel"] > 0
          THEN SafeReadUtf8("engineeringModel", readOk) ELSE Null,
        engineeringResponses |->
          IF fs["engineeringResponses"] > 0
          THEN SafeReadUtf8("engineeringResponses", readOk) ELSE Null]

\* loadLuciusDocs: the file-system calls it makes, in order.  The directory is
\* listed and every matched path is stat-ed on each call; files are read only
\* when the key differs from the cached one.
StatEvents ==
  (IF fs["engineeringModel"] > 0 THEN << <<"fs.stat", "engineeringModel">> >> ELSE <<>>)
  \o (IF fs["engineeringResponses"] > 0 THEN << <<"fs.stat", "engineeringResponses">> >> ELSE <<>>)
ReadEvents ==
  (IF fs["engineeringModel"] > 0 THEN << <<"fs.readFile", "engineeringModel">> >> ELSE <<>>)
  \o (IF fs["engineeringResponses"] > 0 THEN << <<"fs.readFile", "engineeringResponses">> >> ELSE <<>>)
LoadLuciusDocsIO ==
  << <<"fs.readdir", "docs/lucius">> >> \o StatEvents
  \o (IF LocalDocsCached THEN <<>> ELSE ReadEvents)

\* ------------------------------------------------------------- request parsing
\* body[f] for a field the body has, undefined (not a string) otherwise
Field(body, f) == IF f \in DOMAIN body THEN body[f] ELSE Null
\* body.messages: a list of entries [role, content, text, message], empty
\* when the body has no such array.  A role is the JSON value held: "absent"
\* (no role, or a falsy one), a string, or "unconvertible" (an object that
\* String() cannot convert, such as {"toString": 1}).
MessagesOf(body) == IF "messages" \in DOMAIN body THEN body.messages ELSE <<>>
Entry(role, content, t, message) ==
  [role |-> role, content |-> content, text |-> t, message |-> message]

\* String.prototype.toLowerCase on the roles used
ToLowerCase(role) ==
  IF role = "USER" THEN "user" ELSE IF role = "Human" THEN "human" ELSE role
\* line 154
RoleOf(m) == IF m.role = "absent" THEN "" ELSE ToLowerCase(m.role)
\* line 155: m.content ?? m.text ?? m.message
ContentOf(m) ==
  IF m.content # Null THEN m.content ELSE IF m.text # Null THEN m.text ELSE m.message
\* line 156
Eligible(m) ==
  /\ RoleOf(m) \in {"user", "human", ""}
  /\ IsString(ContentOf(m)) /\ Trim(ContentOf(m)) # <<>>

\* The loop of lines 152-159 run from the first entry.
RECURSIVE FromMessagesForward(_)
FromMessagesForward(ms) ==
  IF ms = <<>> THEN [found |-> FALSE, threw |-> FALSE, text |-> <<>>]
  ELSE IF Head(ms).role = "unconvertible"
  THEN [found |-> FALSE, threw |-> TRUE, text |-> <<>>]
  ELSE IF Eligible(Head(ms))
  THEN [found |-> TRUE, threw |-> FALSE, text |-> Trim(ContentOf(Head(ms)))]
  ELSE FromMessagesForward(Tail(ms))

\* lines 151-160: the entries from the last to the first; String(m.role)
\* throws for a role it cannot convert.
RECURSIVE FromMessages(_)
FromMessages(ms) ==
  IF ms = <<>> THEN [found |-> FALSE, threw |-> FALSE, text |-> <<>>]
  ELSE IF ms[Len(ms)].role = "unconvertible"
  THEN [found |-> FALSE, threw |-> TRUE, text |-> <<>>]
  ELSE IF Eligible(ms[Len(ms)])
  THEN [found |-> TRUE, threw |-> FALSE, text |-> Trim(ContentOf(ms[Len(ms)]))]
  ELSE FromMessages(SubSeq(ms, 1, Len(ms) - 1))

\* line 147-149, 162: a field that is a non-blank string
Usable(t) == IsString(t) /\ Trim(t) # <<>>

\* parseUserMessage (lines 144-164): the text returned, or the exception.  A
\* body that is itself a string is a record with the one extra field raw.
ParseOutcome(body) ==
  IF Usable(body.message) THEN [threw |-> FALSE, text |-> Trim(body.message)]
  ELSE IF Usable(Field(body, "input")) THEN [threw |-> FALSE, text |-> Trim(body.input)]
  ELSE IF Usable(Field(body, "text")) THEN [threw |-> FALSE, text |-> Trim(body.text)]
  ELSE IF FromMessages(MessagesOf(body)).threw THEN [threw |-> TRUE, text |-> <<>>]
  ELSE IF FromMessages(MessagesOf(body)).found
  THEN [threw |-> FALSE, text |-> FromMessages(MessagesOf(body)).text]
  ELSE IF Usable(Field(body, "raw")) THEN [threw |-> FALSE, text |-> Trim(body.raw)]
  ELSE [threw |-> FALSE, text |-> <<>>]

ParseThrows(body) == ParseOutcome(body).threw
ParseUserMessage(body) == ParseOutcome(body).text

\* The first characters of a debug POST ("TEST LOGGING:", line 539).
DebugPrefix == <<5>>

\* Request bodies: message, consentToLog and sessionId as the JSON values
\* they hold ("absent": no such field; "unconvertible": an object that
\* String() cannot convert, such as {"toString": 1}).
Bodies ==
  { [message |-> Null,      consentToLog |-> "absent", sessionId |-> "absent"],
    [message |-> <<WS>>,    consentToLog |-> "true",   sessionId |-> "s1"],
    [message |-> <<WS, 7>>, consentToLog |-> "false",  sessionId |-> "s1"] }

\* Bodies that ask for a transcript or for debug telemetry as well.
ChatBodies ==
  Bodies \cup
  { [message |-> <<WS, 7>>,         consentToLog |-> "true",   sessionId |-> "s1"],
    [message |-> DebugPrefix \o <<7>>, consentToLog |-> "yes", sessionId |-> "absent"],
    [message |-> <<WS, 7>>,         consentToLog |-> "absent", sessionId |-> "unconvertible"] }

\* No request is held: a record that no body equals.
NoReq == [message |-> Null, consentToLog |-> "absent", sessionId |-> "absent", held |-> FALSE]

\* ------------------------------------------------------------- https helpers
NoRev == -1
\* The body the website sends with a 404.
NotFoundPage == <<WS, 44, WS>>
\* What httpsRequest settles to for a GET of pack l: a rejection (the request
\* emits "error", or new URL throws) or a response.
HttpsRequestGet(l) ==
  IF PACK_URLS[l] = "malformed"
  THEN { [rejected |-> TRUE, status |-> 0, raw |-> <<>>, rev |-> NoRev, message |-> "Invalid URL"] }
  ELSE IF PACK_URLS[l] = "missing"
  THEN { [rejected |-> FALSE, status |-> 404, raw |-> NotFoundPage, rev |-> NoRev,
           message |-> "null"] }
  ELSE { [rejected |-> TRUE, status |-> 0, raw |-> <<>>, rev |-> NoRev, message |-> "socket hang up"],
         [rejected |-> FALSE, status |-> 200, raw |-> BlankBody, rev |-> remoteVer, message |-> "null"],
         [rejected |-> FALSE, status |-> 200, raw |-> RemoteBody(l, remoteVer), rev |-> remoteVer,
          message |-> "null"] }

\* The response is not the published body of a pack whose URL parses.
Faulty(l, resp) == PACK_URLS[l] = "ok" /\ resp.raw # RemoteBody(l, remoteVer)
\* The responses a GET of pack l can meet while fewer than budget faults have
\* happened.
PackResponses(l, budget) ==
  {resp \in HttpsRequestGet(l) : Faulty(l, resp) => faults < budget}

RespOk(resp) == resp.status >= 200 /\ resp.status < 300

\* httpsTextGet without the status test of line 203.
HttpsTextGetAnyStatus(resp) ==
  IF resp.rejected THEN [threw |-> TRUE, message |-> resp.message, text |-> <<>>, rev |-> NoRev]
  ELSE [threw |-> FALSE, message |-> "null", text |-> Or(resp.raw, <<>>), rev |-> resp.rev]

\* httpsTextGet: throws on a rejection or a non-2xx status, else the body and
\* the headers (the revision markers etag and last-modified).
HttpsTextGet(resp) ==
  IF resp.rejected THEN [threw |-> TRUE, message |-> resp.message, text |-> <<>>, rev |-> NoRev]
  ELSE IF ~RespOk(resp)
  THEN [threw |-> TRUE, message |-> "HTTP GET failed", text |-> <<>>, rev |-> NoRev]
  ELSE [threw |-> FALSE, message |-> "null", text |-> Or(resp.raw, <<>>), rev |-> resp.rev]

\* ------------------------------------------------------------- prompt packs
FetchedInit ==
  [ok |-> FALSE, bytes |-> 0, etag |-> NoRev, lastModified |-> NoRev,
   source |-> "null", error |-> "null"]

\* meta of a pass started at clock value t; pass is the serial number of the
\* request that started the pass (history, not a field of the program's object).
NewMeta(t, n) ==
  [startedAt |-> t, cache |-> "miss", ttlMs |-> PACK_TTL_MS, urls |-> PACK_URLS,
   fetched |-> [l \in LayerSet |-> FetchedInit], pass |-> n]

\* lines 237-239
LocalFallback(l, docs) ==
  IF l = "core" THEN Or(Or(docs.engineeringResponses, ENV_SYSTEM_PROMPT), <<>>)
  ELSE IF l = "systemDesigner" THEN Or(Or(docs.engineeringModel, ENV_KB), <<>>)
  ELSE <<>>

\* fetchOrFallback, lines 248-255: httpsTextGet returned g.
FetchReturned(g, localFallback) ==
  LET t == Trim(Or(g.text, <<>>))
      ok == Truthy(t)
  IN [fetched |-> [ok |-> ok, bytes |-> ByteLength(Or(g.text, <<>>)),
                   etag |-> g.rev, lastModified |-> g.rev,
                   source |-> IF ok THEN "https" ELSE "fallback-empty",
                   error |-> "null"],
      text |-> IF ok THEN t ELSE Trim(Or(localFallback, <<>>)),
      threw |-> FALSE]

\* fetchOrFallback, lines 256-268: httpsTextGet threw g and the catch block ran.
FetchCaught(g, localFallback) ==
  [fetched |-> [ok |-> FALSE, bytes |-> 0, etag |-> NoRev, lastModified |-> NoRev,
                source |-> "local-fallback", error |-> g.message],
   text |-> Trim(Or(localFallback, <<>>)),
   threw |-> FALSE]

\* fetchOrFallback without its try/catch: what httpsTextGet throws leaves the
\* function.
FetchOrFallbackUncaught(g, localFallback) ==
  IF ~g.threw THEN FetchReturned(g, localFallback)
  ELSE [FetchCaught(g, localFallback) EXCEPT !.threw = TRUE]

\* fetchOrFallback after its httpsTextGet settled to g: the metadata written
\* for the layer, the text returned, and whether an exception leaves the
\* function (the catch of line 256 takes every exception of httpsTextGet, and
\* its own logging is guarded: none does).
FetchOrFallback(g, localFallback) ==
  IF ~g.threw THEN FetchReturned(g, localFallback) ELSE FetchCaught(g, localFallback)

\* _packCache.data = null
NoData ==
  [core |-> Null, systemDesigner |-> Null, websiteOverlay |-> Null,
   meta |-> [startedAt |-> -1, cache |-> "null", ttlMs |-> 0, urls |-> AllUrlsOk,
             fetched |-> [l \in LayerSet |-> FetchedInit], pass |-> 0],
   origin |-> [l \in LayerSet |-> 0]]

nowMs == now

\* A validity test that keeps an entry with a layer taken from the local
\* fallback after a failed request for as long as the process lives.
CacheValidOrDegraded ==
  /\ _packCache.data # NoData
  /\ \/ _packCache.expiresAt > nowMs
     \/ \E l \in LayerSet : _packCache.data.meta.fetched[l].source = "local-fallback"

\* The validity test with >= for >.
CacheValidInclusive == _packCache.data # NoData /\ _packCache.expiresAt >= nowMs

\* line 219: the cached packs are served
CacheValid == _packCache.data # NoData /\ _packCache.expiresAt > nowMs

\* A hit that re-reads the website for core instead of serving the entry.
CacheHitResultRefetched ==
  [_packCache.data EXCEPT !.meta.cache = "hit", !.core = Trim(RemoteBody("core", remoteVer))]

\* line 220: the value a hit returns
CacheHitResult == [_packCache.data EXCEPT !.meta.cache = "hit"]

\* lines 286-293: the data object of a finished pass.  origin names, per layer,
\* the pass that resolved the text (history, not a field of the program's object).
PackData(txt, o, m) ==
  [core |-> IF ~Truthy(txt["core"]) THEN Trim(Or(ENV_SYSTEM_PROMPT, <<>>)) ELSE txt["core"],
   systemDesigner |-> txt["systemDesigner"],
   websiteOverlay |-> txt["websiteOverlay"],
   meta |-> m,
   origin |-> o]

\* A hit that marks the stored object itself instead of a copy.
CacheAfterHitMarked == [_packCache EXCEPT !.data.meta.cache = "hit"]

\* lines 219-221: the hit builds its result from spread copies and assigns
\* nothing to _packCache or to the objects it holds.
CacheAfterHit == _packCache

\* An entry whose lifetime is counted from the start of the pass.
StoreEntryFromStart(data) ==
  [expiresAt |-> data.meta.startedAt + PACK_TTL_MS, data |-> data]

\* lines 296-299
StoreEntry(data) == [expiresAt |-> nowMs + PACK_TTL_MS, data |-> data]

\* ------------------------------------------------------------- prompt assembly
Lit(s) == [kind |-> "literal", lit |-> s, txt |-> <<>>]
Txt(t) == [kind |-> "text", lit |-> "", txt |-> t]

\* A composer that puts the product section first.
BuildProductFirst(p) ==
  LET core == Or(p.core, <<>>)
      systemDesigner == Or(p.systemDesigner, <<>>)
      overlay == Or(p.websiteOverlay, <<>>)
  IN << Lit("hardRules"),
        Lit(""),
        Lit("=== PRODUCT PACK: AVToolsSystemDesigner ==="),
        IF Truthy(systemDesigner) THEN Txt(systemDesigner) ELSE Lit("(system-designer pack missing)"),
        Lit(""),
        Lit("=== CORE PACK (global) ==="),
        IF Truthy(core) THEN Txt(core) ELSE Lit("(core pack missing)"),
        Lit(""),
        Lit("=== CONTEXT OVERLAY: Website ==="),
        IF Truthy(overlay) THEN Txt(overlay) ELSE Lit("(website overlay pack missing)") >>

\* A composer that joins the pack texts as they are, empty or not.
BuildWithoutPlaceholders(p) ==
  << Lit("hardRules"),
     Lit(""),
     Lit("=== CORE PACK (global) ==="),
     Txt(Or(p.core, <<>>)),
     Lit(""),
     Lit("=== PRODUCT PACK: AVToolsSystemDesigner ==="),
     Txt(Or(p.systemDesigner, <<>>)),
     Lit(""),
     Lit("=== CONTEXT OVERLAY: Website ==="),
     Txt(Or(p.websiteOverlay, <<>>)) >>

\* A composer that stamps the document with the cache status of the packs.
BuildWithCacheStatus(p) ==
  << Lit("hardRules"),
     Lit(p.meta.cache),
     Lit("=== CORE PACK (global) ==="),
     IF Truthy(Or(p.core, <<>>)) THEN Txt(p.core) ELSE Lit("(core pack missing)"),
     Lit(""),
     Lit("=== PRODUCT PACK: AVToolsSystemDesigner ==="),
     IF Truthy(Or(p.systemDesigner, <<>>)) THEN Txt(p.systemDesigner)
     ELSE Lit("(system-designer pack missing)"),
     Lit(""),
     Lit("=== CONTEXT OVERLAY: Website ==="),
     IF Truthy(Or(p.websiteOverlay, <<>>)) THEN Txt(p.websiteOverlay)
     ELSE Lit("(website overlay pack missing)") >>

\* buildDeveloperInstructionsFromPacks: the lines joined into the document.
BuildDeveloperInstructionsFromPacks(p) ==
  LET core == Or(p.core, <<>>)
      systemDesigner == Or(p.systemDesigner, <<>>)
      overlay == Or(p.websiteOverlay, <<>>)
  IN << Lit("hardRules"),
        Lit(""),
        Lit("=== CORE PACK (global) ==="),
        IF Truthy(core) THEN Txt(core) ELSE Lit("(core pack missing)"),
        Lit(""),
        Lit("=== PRODUCT PACK: AVToolsSystemDesigner ==="),
        IF Truthy(systemDesigner) THEN Txt(systemDesigner) ELSE Lit("(system-designer pack missing)"),
        Lit(""),
        Lit("=== CONTEXT OVERLAY: Website ==="),
        IF Truthy(overlay) THEN Txt(overlay) ELSE Lit("(website overlay pack missing)") >>

\* ------------------------------------------------------------- OpenAI Responses API
\* What the POST to /v1/responses settles to: a rejection, or a status and a
\* body.  parsed: JSON.parse took the body (lines 420-425); output_text,
\* output and errorMessage are the fields output_text, output and
\* error.message of the parsed body (Null, <<>> and "null" when absent).
\* output is a list of items [type, content]; content is a list of blocks
\* [type, text], where a block of type "string" is a bare string held in text
\* and a block of type "null" is null.
Block(type, t) == [type |-> type, text |-> t]
Item(type, content) == [type |-> type, content |-> content]
Response(status, flat, output, errorMessage) ==
  [rejected |-> FALSE, status |-> status, parsed |-> TRUE, output_text |-> flat,
   output |-> output, errorMessage |-> errorMessage]

UpstreamOutcomes ==
  { [rejected |-> TRUE, status |-> 0, parsed |-> FALSE, output_text |-> Null,
     output |-> <<>>, errorMessage |-> "connect ECONNREFUSED"],
    Response(200, <<WS, 8>>, <<>>, "null"),
    Response(200, Null, <<>>, "null"),
    Response(429, Null, <<>>, "Rate limit reached"),
    Response(429, Null, <<>>, "You exceeded your current quota"),
    Response(503, Null, <<>>, "null") }

\* parts.join("\n"): a line feed is a whitespace character.
RECURSIVE Join(_)
Join(parts) ==
  IF parts = <<>> THEN <<>>
  ELSE IF Len(parts) = 1 THEN parts[1]
  ELSE parts[1] \o <<WS>> \o Join(Tail(parts))

\* line 371: the block is pushed
IsTextBlock(c) == c.type \in {"output_text", "text"} /\ IsString(c.text)
\* lines 368-372: parts of a message item
MessageParts(item) ==
  LET kept == SelectSeq(item.content, IsTextBlock)
  IN [i \in 1..Len(kept) |-> kept[i].text]

\* lines 365-376: the first message item that has parts decides, even when
\* its parts are blank.
RECURSIVE FromMessageItems(_)
FromMessageItems(output) ==
  IF output = <<>> THEN [found |-> FALSE, text |-> <<>>]
  ELSE IF Head(output).type = "message" /\ MessageParts(Head(output)) # <<>>
  THEN [found |-> TRUE, text |-> Trim(Join(MessageParts(Head(output))))]
  ELSE FromMessageItems(Tail(output))

\* lines 380-382: the content of the first output item, mapped and filtered
BlockText(c) == IF c.type # "null" /\ IsString(c.text) THEN c.text ELSE <<>>
IsNonEmpty(t) == t # <<>>
FirstItemParts(output) ==
  IF output = <<>> THEN <<>>
  ELSE SelectSeq([i \in 1..Len(output[1].content) |-> BlockText(output[1].content[i])],
                 IsNonEmpty)

\* extractOutputText (lines 358-390): the text, or Null.
ExtractOutputText(json) ==
  IF ~json.parsed THEN Null
  ELSE IF IsString(json.output_text) /\ Trim(json.output_text) # <<>>
  THEN Trim(json.output_text)
  ELSE IF FromMessageItems(json.output).found THEN FromMessageItems(json.output).text
  ELSE IF FirstItemParts(json.output) # <<>> THEN Trim(Join(FirstItemParts(json.output)))
  ELSE Null

NoRes == [status |-> 0, ok |-> FALSE, reply |-> Null, error |-> "null"]

\* A catch block that answers 500 whatever status the error carries.
ErrorResAlways500(status, message) ==
  [status |-> 500, ok |-> FALSE, reply |-> Null,
   error |-> IF message # "" THEN message ELSE "Unknown error"]

\* lines 583-587: the response of the catch block for an error with this
\* status (0: none) and message.
ErrorRes(status, message) ==
  [status |-> IF status # 0 THEN status ELSE 500, ok |-> FALSE, reply |-> Null,
   error |-> IF message # "" THEN message ELSE "Unknown error"]

\* line 430: "OpenAI API error (" + resp.status + ")"
ApiErrorMessage(status) ==
  CASE status = 429 -> "OpenAI API error (429)"
    [] status = 503 -> "OpenAI API error (503)"
    [] OTHER -> "OpenAI API error (status)"

\* line 440
NoOutputText == "OpenAI response received but no output text was found to display."

\* callOpenAI that returns whatever extractOutputText found.
CallOpenAIResLenient(u) ==
  IF u.rejected THEN ErrorRes(0, u.errorMessage)
  ELSE IF ~RespOk(u)
  THEN ErrorRes(u.status, IF u.errorMessage # "null" THEN u.errorMessage
                          ELSE ApiErrorMessage(u.status))
  ELSE [status |-> 200, ok |-> TRUE, reply |-> ExtractOutputText(u), error |-> "null"]

\* callOpenAI after its request settled to u, and the response the handler
\* builds from it (lines 420-441, 549-564, 580-588).
CallOpenAIRes(u) ==
  IF u.rejected THEN ErrorRes(0, u.errorMessage)
  ELSE IF ~RespOk(u)
  THEN ErrorRes(u.status, IF u.errorMessage # "null" THEN u.errorMessage
                          ELSE ApiErrorMessage(u.status))
  ELSE IF Truthy(ExtractOutputText(u))
  THEN [status |-> 200, ok |-> TRUE, reply |-> ExtractOutputText(u), error |-> "null"]
  ELSE ErrorRes(0, NoOutputText)

\* ------------------------------------------------------------- transcript and telemetry
\* line 451: payload.user.slice(0, 2000)
UserCap == 2000
\* line 452: payload.lucius.slice(0, 4000)
ReplyCap == 4000

\* A slice that keeps the whole string.
SliceUncapped(s, n) == s

\* String.prototype.slice(0, n) for n >= 0
Slice(s, n) == IF Len(s) <= n THEN s ELSE SubSeq(s, 1, n)

\* String.prototype.startsWith
StartsWith(s, prefix) ==
  Len(s) >= Len(prefix) /\ SubSeq(s, 1, Len(prefix)) = prefix

\* line 539
IsDebugPost(ut) == StartsWith(ut, DebugPrefix)

\* line 567: !!(req.body && req.body.consentToLog)
ConsentToLog(body) == body.consentToLog \notin {"absent", "false"}

\* line 568: String(req.body.sessionId) throws for an object it cannot
\* convert to a primitive.
Convertible(body) == body.sessionId # "unconvertible"
SessionIdOf(body) == IF body.sessionId = "absent" THEN "null" ELSE body.sessionId

\* The gate of line 570 without the consent flag.
ShouldLogReplies(body, reply) == Truthy(reply)

\* line 570: consentToLog && reply
ShouldLog(body, reply) == ConsentToLog(body) /\ Truthy(reply)

\* What context.log and context.log.warn can do when logTranscriptEvent calls
\* them: both work, context.log throws, or both throw.
SinkOutcomes == {"ok", "logThrows", "allThrow"}

\* lines 446-453
SafePayload(payload) ==
  [sessionId |-> payload.sessionId,
   user |-> IF IsString(payload.user) THEN Slice(payload.user, UserCap) ELSE Null,
   lucius |-> IF IsString(payload.lucius) THEN Slice(payload.lucius, ReplyCap) ELSE Null]

NoPayload == [sessionId |-> "null", user |-> Null, lucius |-> Null]

\* The lines logTranscriptEvent leaves in the log.
TranscriptLines(payload, sink) ==
  IF sink = "ok"
  THEN << [tag |-> "LUCIUS_TRANSCRIPT", payload |-> SafePayload(payload)] >>
  ELSE IF sink = "logThrows"
  THEN << [tag |-> "Lucius transcript logging failed:", payload |-> NoPayload] >>
  ELSE <<>>

\* logTranscriptEvent without its try/catch blocks.
LogTranscriptEventUncaught(payload, sink) ==
  [lines |-> IF sink = "ok" THEN TranscriptLines(payload, sink) ELSE <<>>,
   threw |-> sink # "ok"]

\* logTranscriptEvent (lines 444-460): the lines written, and whether an
\* exception leaves the function (both catch blocks take everything: none
\* does).
LogTranscriptEvent(payload, sink) ==
  [lines |-> TranscriptLines(payload, sink), threw |-> FALSE]

\* No diagnostic body.
NoDiag == [kind |-> "none"]

\* The whole data object attached as telemetry.
DebugBodyWithPacks(p) ==
  [kind |-> "pack", pack |-> p, cacheExpiresAt |-> _packCache.expiresAt]

\* lines 552-558: body.debug of a debug POST
DebugBody(p) ==
  [kind |-> "pack", pack |-> p.meta, cacheExpiresAt |-> _packCache.expiresAt]

\* lines 476-523: the body of a GET, for the docs loadLuciusDocs returned
GetBody(docs, debug) ==
  IF debug
  THEN [kind |-> "debug",
        docsDirListing |-> {d \in Docs : fs[d] > 0},
        docsFound |-> [d \in Docs |-> Truthy(docs[d])],
        docPaths |-> [d \in Docs |-> DocPath(d)],
        packConfig |-> [PACK_TTL_MS |-> PACK_TTL_MS, PACK_URLS |-> PACK_URLS]]
  ELSE [kind |-> "status", docsFound |-> [d \in Docs |-> Truthy(docs[d])]]

\* ------------------------------------------------------------- the handler
NoText == [l \in LayerSet |-> <<>>]
NoOrigin == [l \in LayerSet |-> 0]

NoUpstream ==
  [rejected |-> FALSE, status |-> 0, parsed |-> FALSE, output_text |-> Null,
   output |-> <<>>, errorMessage |-> "null"]

\* lines 234-239: the greeting state.messages starts with
Greeting == [role |-> "sys", text |-> Lit("Hi - I'm Lucius.")]

\* lines 255-260 without the map over state.messages: the body holds the
\* greeting alone.
RenderGreetingOnly(ms) == << [cls |-> "sys", text |-> Greeting.text] >>

\* renderMessages (lines 255-260): one element per entry of state.messages,
\* in order, with the class of its role and the entry's text as its content.
RenderMessages(ms) ==
  [i \in 1..Len(ms) |->
    [cls |-> IF ms[i].role = "user" THEN "user"
             ELSE IF ms[i].role = "bot" THEN "bot" ELSE "sys",
     text |-> ms[i].text]]

Init ==
  /\ \E c \in Configs :
       /\ PACK_TTL_MS = c.ttl
       /\ ENV_SYSTEM_PROMPT = c.prompt
       /\ ENV_KB = c.kb
       /\ PACK_URLS = c.urls
       /\ OPENAI_API_KEY = c.key
  /\ now = 0
  /\ remoteVer = 0
  /\ fs = [d \in Docs |-> 0]
  /\ _cachedLocalDocs = NoDocs
  /\ _cachedLocalKey = NoKey
  /\ _packCache = [expiresAt |-> 0, data |-> NoData]
  /\ pc = [r \in Reqs |-> "idle"]
  /\ userText = [r \in Reqs |-> <<>>]
  /\ localDocs = [r \in Reqs |-> NoDocs]
  /\ meta = [r \in Reqs |-> NoData.meta]
  /\ text = [r \in Reqs |-> NoText]
  /\ org = [r \in Reqs |-> NoOrigin]
  /\ packs = [r \in Reqs |-> NoData]
  /\ res = [r \in Reqs |-> NoRes]
  /\ io = [r \in Reqs |-> <<>>]
  /\ upstream = [r \in Reqs |-> NoUpstream]
  /\ req = [r \in Reqs |-> NoReq]
  /\ logged = [r \in Reqs |-> <<>>]
  /\ diag = [r \in Reqs |-> NoDiag]
  /\ consent = "null"
  /\ busy = FALSE
  /\ open = FALSE
  /\ messages = << Greeting >>
  /\ shown = RenderMessages(<< Greeting >>)
  /\ reqCount = 0
  /\ faults = 0
  /\ servedExpiry = [r \in Reqs |-> 0]

\* The handler has answered: what it held for the request is garbage.
Finish(r, response) ==
  /\ pc' = [pc EXCEPT ![r] = "done"]
  /\ res' = [res EXCEPT ![r] = response]
  /\ userText' = [userText EXCEPT ![r] = <<>>]
  /\ packs' = [packs EXCEPT ![r] = NoData]
  /\ io' = [io EXCEPT ![r] = <<>>]

\* lines 545-546 up to the await of callOpenAI's request, for the packs p the
\* lookup returned: with no API key callOpenAI throws before any request is
\* made and the catch block answers.
CallOpenAIStart(r, ut, p, log) ==
  IF OPENAI_API_KEY
  THEN /\ pc' = [pc EXCEPT ![r] = "openai"]
       /\ userText' = [userText EXCEPT ![r] = ut]
       /\ packs' = [packs EXCEPT ![r] = p]
       /\ io' = [io EXCEPT ![r] = log]
       /\ res' = res
  ELSE Finish(r, ErrorRes(0, "Missing OPENAI_API_KEY environment variable."))

\* POST with no usable message: lines 528-536.
PostMissingMessage(r, body) ==
  /\ pc[r] = "idle"
  /\ reqCount < MaxReqs
  /\ ~ParseThrows(body)
  /\ ParseUserMessage(body) = <<>>
  /\ reqCount' = reqCount + 1
  /\ Finish(r, [status |-> 400, ok |-> FALSE, reply |-> Null, error |-> "Missing message."])
  /\ req' = [req EXCEPT ![r] = body]
  /\ UNCHANGED <<config, world, caches, localDocs, meta, text, org, upstream, faults,
                 servedExpiry, logged, diag>>

\* POST on which parseUserMessage throws: line 528 is inside the try, so the
\* catch block of lines 580-588 answers.
PostParseThrows(r, body) ==
  /\ pc[r] = "idle"
  /\ reqCount < MaxReqs
  /\ ParseThrows(body)
  /\ reqCount' = reqCount + 1
  /\ Finish(r, ErrorRes(0, "Cannot convert object to primitive value"))
  /\ req' = [req EXCEPT ![r] = body]
  /\ UNCHANGED <<config, world, caches, localDocs, meta, text, org, upstream, faults,
                 servedExpiry, logged, diag>>

\* POST served from the pack cache: lines 528-546 with the hit of lines 219-221.
\* Nothing is awaited before callOpenAI's request, so this is one step.
PostCacheHit(r, body, readOk) ==
  /\ pc[r] = "idle"
  /\ reqCount < MaxReqs
  /\ ParseUserMessage(body) # <<>>
  /\ CacheValid
  /\ reqCount' = reqCount + 1
  /\ _cachedLocalDocs' = LoadLuciusDocs(readOk)
  /\ _cachedLocalKey' = DocsKey
  /\ CallOpenAIStart(r, ParseUserMessage(body), CacheHitResult, LoadLuciusDocsIO)
  /\ faults' = IF readOk THEN faults ELSE faults + 1
  /\ servedExpiry' = [servedExpiry EXCEPT ![r] = _packCache.expiresAt]
  /\ req' = [req EXCEPT ![r] = body]
  /\ _packCache' = CacheAfterHit
  /\ UNCHANGED <<config, world, localDocs, meta, text, org, upstream, logged, diag>>

\* POST that finds no valid entry: lines 528-543, 219-248 up to the await of
\* the first pack's httpsTextGet.
PostCacheMiss(r, body, readOk) ==
  /\ pc[r] = "idle"
  /\ reqCount < MaxReqs
  /\ ParseUserMessage(body) # <<>>
  /\ ~CacheValid
  /\ reqCount' = reqCount + 1
  /\ userText' = [userText EXCEPT ![r] = ParseUserMessage(body)]
  /\ localDocs' = [localDocs EXCEPT ![r] = LoadLuciusDocs(readOk)]
  /\ _cachedLocalDocs' = LoadLuciusDocs(readOk)
  /\ _cachedLocalKey' = DocsKey
  /\ meta' = [meta EXCEPT ![r] = NewMeta(nowMs, reqCount + 1)]
  /\ io' = [io EXCEPT ![r] = LoadLuciusDocsIO \o << <<"https.get", "core">> >>]
  /\ pc' = [pc EXCEPT ![r] = "core"]
  /\ faults' = IF readOk THEN faults ELSE faults + 1
  /\ req' = [req EXCEPT ![r] = body]
  /\ UNCHANGED <<config, world, _packCache, text, org, packs, res, upstream, logged, diag,
                 servedExpiry>>

NextLayer(l) == IF l = "core" THEN "systemDesigner" ELSE "websiteOverlay"

\* A pass that writes each layer into the stored entry as soon as it resolves.
CacheWrittenPerLayer(r, l, t) ==
  IF _packCache.data = NoData THEN _packCache
  ELSE [_packCache EXCEPT !.data[l] = t, !.data.origin[l] = meta[r].pass]

\* The pack cache while a pass is between two layers: a pass writes nothing
\* to _packCache before line 296.
CacheDuringPass(r, l, t) == _packCache

\* An exception leaves loadPromptPacksWithCache: the handler's catch block
\* answers (lines 580-588) and the pass is abandoned.
PassThrows(r, message) ==
  /\ Finish(r, ErrorRes(0, message))
  /\ meta' = [meta EXCEPT ![r] = NoData.meta]
  /\ text' = [text EXCEPT ![r] = NoText]
  /\ org' = [org EXCEPT ![r] = NoOrigin]
  /\ localDocs' = [localDocs EXCEPT ![r] = NoDocs]
  /\ UNCHANGED _packCache

\* The httpsTextGet of core or systemDesigner settles: fetchOrFallback finishes
\* for that layer (lines 248-268) and the next layer's httpsTextGet is awaited.
FetchDone(r, l, resp) ==
  /\ pc[r] = l
  /\ l # "websiteOverlay"
  /\ LET f == FetchOrFallback(HttpsTextGet(resp), LocalFallback(l, localDocs[r])) IN
       IF f.threw
       THEN PassThrows(r, f.fetched.error)
       ELSE /\ meta' = [meta EXCEPT ![r].fetched[l] = f.fetched]
            /\ text' = [text EXCEPT ![r][l] = f.text]
            /\ org' = [org EXCEPT ![r][l] = meta[r].pass]
            /\ _packCache' = CacheDuringPass(r, l, f.text)
            /\ io' = [io EXCEPT ![r] = Append(@, <<"https.get", NextLayer(l)>>)]
            /\ pc' = [pc EXCEPT ![r] = NextLayer(l)]
            /\ UNCHANGED <<userText, localDocs, packs, res>>
  /\ faults' = IF Faulty(l, resp) THEN faults + 1 ELSE faults
  /\ UNCHANGED <<config, world, _cachedLocalDocs, _cachedLocalKey, upstream, reqCount,
                 req, logged, diag, servedExpiry>>

\* The httpsTextGet of websiteOverlay settles: the pass finishes, stores the
\* entry (lines 286-301) and the handler goes on to callOpenAI (lines 545-546).
\* The pass's own variables live on only in the data object.
PassDone(r, resp) ==
  /\ pc[r] = "websiteOverlay"
  /\ LET l == "websiteOverlay"
         f == FetchOrFallback(HttpsTextGet(resp), LocalFallback(l, localDocs[r]))
         data == PackData([text[r] EXCEPT ![l] = f.text],
                          [org[r] EXCEPT ![l] = meta[r].pass],
                          [meta[r] EXCEPT !.fetched[l] = f.fetched])
     IN
       IF f.threw
       THEN PassThrows(r, f.fetched.error) /\ servedExpiry' = servedExpiry
       ELSE /\ _packCache' = StoreEntry(data)
            /\ servedExpiry' = [servedExpiry EXCEPT ![r] = StoreEntry(data).expiresAt]
            /\ CallOpenAIStart(r, userText[r], data, io[r])
            /\ meta' = [meta EXCEPT ![r] = NoData.meta]
            /\ text' = [text EXCEPT ![r] = NoText]
            /\ org' = [org EXCEPT ![r] = NoOrigin]
            /\ localDocs' = [localDocs EXCEPT ![r] = NoDocs]
  /\ faults' = IF Faulty("websiteOverlay", resp) THEN faults + 1 ELSE faults
  /\ UNCHANGED <<config, world, _cachedLocalDocs, _cachedLocalKey, upstream, reqCount,
                 req, logged, diag>>

\* callOpenAI's request settles and the handler answers: lines 420-441 and
\* 549-564, the transcript block of lines 566-579, the catch of 580-588.
OpenAIDone(r, u, sink) ==
  /\ pc[r] = "openai"
  /\ LET answer == CallOpenAIRes(u)
         payload == [sessionId |-> SessionIdOf(req[r]), user |-> userText[r],
                     lucius |-> answer.reply]
         logs == answer.ok /\ Convertible(req[r]) /\ ShouldLog(req[r], answer.reply)
         event == LogTranscriptEvent(payload, sink)
         threw == answer.ok /\ (~Convertible(req[r]) \/ (logs /\ event.threw))
     IN /\ Finish(r, IF ~threw THEN answer
                     ELSE IF ~Convertible(req[r])
                     THEN ErrorRes(0, "Cannot convert object to primitive value")
                     ELSE ErrorRes(0, "log sink failed"))
        /\ diag' = [diag EXCEPT ![r] =
                      IF answer.ok /\ ~threw /\ IsDebugPost(userText[r])
                      THEN DebugBody(packs[r]) ELSE NoDiag]
        /\ logged' = [logged EXCEPT ![r] = IF logs THEN event.lines ELSE <<>>]
  /\ upstream' = [upstream EXCEPT ![r] = u]
  /\ UNCHANGED <<config, world, caches, localDocs, meta, text, org, ghost, req>>

\* The file-system calls of a GET: loadLuciusDocs and, for ?debug=1, the
\* safeStat and listDir of lines 480-481.
GetIO(debug) ==
  LoadLuciusDocsIO
  \o (IF debug THEN << <<"fs.stat", "docs/lucius">>, <<"fs.readdir", "docs/lucius">> >> ELSE <<>>)

\* A GET that drops the stored packs so that the next POST reloads them.
GetRefreshing(r, debug, readOk) ==
  /\ pc[r] = "idle"
  /\ reqCount < MaxReqs
  /\ reqCount' = reqCount + 1
  /\ _cachedLocalDocs' = LoadLuciusDocs(readOk)
  /\ _cachedLocalKey' = DocsKey
  /\ _packCache' = [expiresAt |-> 0, data |-> NoData]
  /\ pc' = [pc EXCEPT ![r] = "done"]
  /\ res' = [res EXCEPT ![r] = [status |-> 200, ok |-> TRUE, reply |-> Null, error |-> "null"]]
  /\ io' = [io EXCEPT ![r] = GetIO(debug)]
  /\ diag' = [diag EXCEPT ![r] = GetBody(LoadLuciusDocs(readOk), debug)]
  /\ faults' = IF readOk THEN faults ELSE faults + 1
  /\ UNCHANGED <<config, world, userText, packs, localDocs, meta, text, org, upstream,
                 req, logged, servedExpiry>>

\* GET (lines 475-525): the status body, or the debug body for ?debug=1.
Get(r, debug, readOk) ==
  /\ pc[r] = "idle"
  /\ reqCount < MaxReqs
  /\ reqCount' = reqCount + 1
  /\ _cachedLocalDocs' = LoadLuciusDocs(readOk)
  /\ _cachedLocalKey' = DocsKey
  /\ pc' = [pc EXCEPT ![r] = "done"]
  /\ res' = [res EXCEPT ![r] = [status |-> 200, ok |-> TRUE, reply |-> Null, error |-> "null"]]
  /\ io' = [io EXCEPT ![r] = GetIO(debug)]
  /\ diag' = [diag EXCEPT ![r] = GetBody(LoadLuciusDocs(readOk), debug)]
  /\ faults' = IF readOk THEN faults ELSE faults + 1
  /\ UNCHANGED <<config, world, _packCache, userText, packs, localDocs, meta, text, org,
                 upstream, req, logged, servedExpiry>>

\* OPTIONS (lines 469-472): status 204 and the CORS headers, no body.
Options(r) ==
  /\ pc[r] = "idle"
  /\ reqCount < MaxReqs
  /\ reqCount' = reqCount + 1
  /\ pc' = [pc EXCEPT ![r] = "done"]
  /\ res' = [res EXCEPT ![r] = [status |-> 204, ok |-> FALSE, reply |-> Null, error |-> "null"]]
  /\ UNCHANGED <<config, world, caches, userText, packs, io, localDocs, meta, text, org,
                 upstream, req, logged, diag, faults, servedExpiry>>

\* The invocation has returned.
Return(r) ==
  /\ pc[r] = "done"
  /\ pc' = [pc EXCEPT ![r] = "idle"]
  /\ res' = [res EXCEPT ![r] = NoRes]
  /\ upstream' = [upstream EXCEPT ![r] = NoUpstream]
  /\ req' = [req EXCEPT ![r] = NoReq]
  /\ logged' = [logged EXCEPT ![r] = <<>>]
  /\ diag' = [diag EXCEPT ![r] = NoDiag]
  /\ io' = [io EXCEPT ![r] = <<>>]
  /\ servedExpiry' = [servedExpiry EXCEPT ![r] = 0]
  /\ UNCHANGED <<config, world, caches, userText, localDocs, meta, text, org, packs, reqCount,
                 faults>>

\* ------------------------------------------------------------- the environment
\* The clock advances.
Tick ==
  /\ now < MaxTime
  /\ now' = now + 1
  /\ UNCHANGED <<config, remoteVer, fs, caches, locals, ghost, widget>>

\* A new revision of the packs is published on the website.
Publish ==
  /\ remoteVer < MaxVer
  /\ remoteVer' = remoteVer + 1
  /\ UNCHANGED <<config, now, fs, caches, locals, ghost, widget>>

\* The function app is deployed: its docs/lucius files are written.
Deploy ==
  /\ \A d \in Docs : fs[d] < MaxMtime
  /\ fs' = [d \in Docs |-> fs[d] + 1]
  /\ UNCHANGED <<config, now, remoteVer, caches, locals, ghost, widget>>

\* The handler's steps for the invocations in R, with request bodies from B,
\* at most budget faults, and outcomes of the OpenAI call from U.
Handler(R, budget, B, U) ==
  \/ \E r \in R, body \in B : PostMissingMessage(r, body) /\ UNCHANGED widget
  \/ \E r \in R, body \in B, readOk \in ReadOutcomes(budget) :
       PostCacheHit(r, body, readOk) /\ UNCHANGED widget
  \/ \E r \in R, body \in B, readOk \in ReadOutcomes(budget) :
       PostCacheMiss(r, body, readOk) /\ UNCHANGED widget
  \/ \E r \in R, l \in LayerSet : \E resp \in PackResponses(l, budget) :
       FetchDone(r, l, resp) /\ UNCHANGED widget
  \/ \E r \in R : \E resp \in PackResponses("websiteOverlay", budget) :
       PassDone(r, resp) /\ UNCHANGED widget
  \/ \E r \in R, u \in U, sink \in SinkOutcomes : OpenAIDone(r, u, sink) /\ UNCHANGED widget
  \/ \E r \in R, debug \in BOOLEAN, readOk \in ReadOutcomes(budget) :
       Get(r, debug, readOk) /\ UNCHANGED widget
  \/ \E r \in R : Return(r) /\ UNCHANGED widget

\* Concurrent invocations; every pack whose URL is "ok" is served as
\* published, every local read succeeds, and no request asks for a transcript
\* or for telemetry.
Next ==
  \/ Handler(Reqs, 0, Bodies, UpstreamOutcomes)
  \/ Tick
  \/ Publish

Spec == Init /\ [][Next]_vars

\* One invocation at a time; pack fetches and local reads can go wrong and
\* the function app can be redeployed.
NextFaults ==
  \/ Handler({1}, MaxFaults, ChatBodies, UpstreamOutcomes)
  \/ Tick
  \/ Publish
  \/ Deploy

SpecFaults == Init /\ [][NextFaults]_vars

\* The server of a pack accepts the request and never answers (or never ends
\* its response): neither "end" nor "error" is emitted, httpsRequest sets no
\* timeout (lines 181-197), and the promise the pass awaits never settles.
ServerHangs(r) ==
  /\ pc[r] \in LayerSet
  /\ pc' = [pc EXCEPT ![r] = "hung"]
  /\ UNCHANGED <<config, world, caches, userText, localDocs, meta, text, org, packs, res, io,
                 upstream, ghost, req, logged, diag, widget>>

\* One invocation at a time, with pack servers that may never answer.  The
\* event loop runs every continuation whose awaited promise has settled.
NextHang ==
  \/ Handler({1}, 0, Bodies, UpstreamOutcomes)
  \/ ServerHangs(1)
  \/ Tick
  \/ Publish

SpecHang == Init /\ [][NextHang]_vars /\ WF_vars(NextHang)

\* A text of n characters, none of them whitespace.
LongText(n) == [i \in 1..n |-> 1 + (i % 9)]

\* Consenting requests whose message is about as long as the cap of line 451,
\* and one without a message.
LongBodies ==
  { [message |-> LongText(n), consentToLog |-> "true", sessionId |-> "s1"] :
      n \in (UserCap - 1)..(UserCap + MaxOver) }
  \cup { [message |-> Null, consentToLog |-> "true", sessionId |-> "s1"] }

\* Replies about as long as the cap of line 452.
LongUpstream ==
  { Response(200, LongText(n), <<>>, "null") : n \in (ReplyCap - 1)..(ReplyCap + MaxOver) }

\* One invocation at a time, with long messages and long replies.
NextLog ==
  \/ Handler({1}, 0, LongBodies, LongUpstream)
  \/ Tick

SpecLog == Init /\ [][NextLog]_vars

\* 2xx answers of the Responses API in the shapes extractOutputText looks
\* at: the flat field, message items with text blocks, items of other types,
\* refusal blocks, bare strings, blank texts.
Msg(content) == Item("message", content)
StructuredOutcomes ==
  { Response(200, <<WS, 8>>, <<>>, "null"),
    Response(200, Null, <<>>, "null"),
    Response(200, <<WS>>, << Msg(<< Block("output_text", <<8, WS>>) >>) >>, "null"),
    Response(200, Null,
             << Item("reasoning", <<>>),
                Msg(<< Block("null", Null), Block("output_text", <<8>>), Block("text", <<9>>) >>) >>,
             "null"),
    Response(200, Null,
             << Msg(<< Block("output_text", <<WS>>) >>), Msg(<< Block("output_text", <<8>>) >>) >>,
             "null"),
    Response(200, Null, << Item("other", << Block("string", <<8>>) >>) >>, "null"),
    Response(200, Null, << Msg(<< Block("refusal", <<8>>) >>) >>, "null"),
    Response(200, Null,
             << Msg(<< Block("refusal", <<WS>>) >>), Msg(<< Block("refusal", <<8>>) >>) >>,
             "null"),
    [Response(200, Null, <<>>, "null") EXCEPT !.parsed = FALSE] }

\* One invocation at a time, answered by the API in every shape.
NextUpstream ==
  \/ Handler({1}, 0, Bodies, StructuredOutcomes)
  \/ Tick

SpecUpstream == Init /\ [][NextUpstream]_vars

\* One invocation at a time, with CORS preflights among the requests, and
\* redeployments.
NextStatus ==
  \/ Handler({1}, 0, Bodies, UpstreamOutcomes)
  \/ Options(1) /\ UNCHANGED widget
  \/ Tick
  \/ Deploy

SpecStatus == Init /\ [][NextStatus]_vars

\* Request bodies in the shapes parseUserMessage looks at.
Plain(message) == [message |-> message, consentToLog |-> "absent", sessionId |-> "absent"]
WithMessages(ms) ==
  [message |-> Null, consentToLog |-> "absent", sessionId |-> "absent", messages |-> ms]
ParseBodies ==
  { Plain(Null),
    Plain(<<WS, 7>>),
    [message |-> <<WS>>, consentToLog |-> "absent", sessionId |-> "absent", input |-> <<WS, 6>>],
    [message |-> Null, consentToLog |-> "absent", sessionId |-> "absent",
     input |-> <<WS>>, text |-> <<5, WS>>],
    [message |-> <<7>>, consentToLog |-> "absent", sessionId |-> "absent",
     input |-> <<6>>, text |-> <<5>>, raw |-> Null,
     messages |-> << Entry("user", <<1>>, Null, Null) >>],
    WithMessages(<< Entry("user", <<WS, 1>>, Null, Null), Entry("assistant", <<2>>, Null, Null) >>),
    WithMessages(<< Entry("human", <<1>>, Null, Null), Entry("USER", <<2, WS>>, Null, Null) >>),
    WithMessages(<< Entry("user", <<1>>, Null, Null), Entry("absent", Null, <<3>>, Null) >>),
    WithMessages(<< Entry("absent", Null, Null, <<WS, 4>>) >>),
    WithMessages(<< Entry("user", <<WS>>, <<3>>, Null) >>),
    WithMessages(<< Entry("assistant", <<2>>, Null, Null) >>),
    WithMessages(<< Entry("unconvertible", <<>>, Null, Null) >>),
    WithMessages(<< Entry("user", <<1>>, Null, Null), Entry("unconvertible", <<2>>, Null, Null) >>),
    WithMessages(<< Entry("unconvertible", <<1>>, Null, Null), Entry("user", <<2>>, Null, Null) >>),
    [message |-> Null, consentToLog |-> "absent", sessionId |-> "absent", raw |-> <<WS, 4>>],
    [message |-> Null, consentToLog |-> "absent", sessionId |-> "absent", raw |-> <<WS>>] }

\* One invocation at a time, with bodies of every shape.
NextParse ==
  \/ Handler({1}, 0, ParseBodies, UpstreamOutcomes)
  \/ \E body \in ParseBodies : PostParseThrows(1, body) /\ UNCHANGED widget
  \/ Tick

SpecParse == Init /\ [][NextParse]_vars

\* A local doc file is written (created, or rewritten with a new mtime) while
\* the process runs.
Touch(d) ==
  /\ fs[d] < MaxTouch
  /\ fs' = [fs EXCEPT ![d] = fs[d] + 1]
  /\ UNCHANGED <<config, now, remoteVer, caches, locals, ghost, widget>>

\* One invocation at a time, with doc files that change under the process and
\* reads that can fail.
NextDocs ==
  \/ Handler({1}, MaxFaults, Bodies, UpstreamOutcomes)
  \/ \E d \in Docs : Touch(d)
  \/ Tick

SpecDocs == Init /\ [][NextDocs]_vars

\* Requests that ask for debug telemetry, plain ones and empty ones.
DebugBodies ==
  { [message |-> DebugPrefix \o <<7>>, consentToLog |-> "absent", sessionId |-> "absent"],
    [message |-> <<WS>>,               consentToLog |-> "false",  sessionId |-> "s1"],
    [message |-> <<WS, 7>>,            consentToLog |-> "false",  sessionId |-> "s1"] }

\* Concurrent invocations, some of them "TEST LOGGING:" POSTs.
NextDebug ==
  \/ Handler(Reqs, 0, DebugBodies, UpstreamOutcomes)
  \/ Tick

SpecDebug == Init /\ [][NextDebug]_vars

\* ------------------------------------------------------------- the chat widget
\* gated(): consent is neither "yes" nor "no"
Gated == consent # "yes" /\ consent # "no"

\* What the visitor can have typed into the input.
Inputs == { <<>>, <<WS>>, <<WS, 7>>, DebugPrefix \o <<7>> }

\* A request body that carries state.consent itself.
WidgetBodyRawConsent(msg) ==
  [message |-> msg, consentToLog |-> consent, sessionId |-> "s1"]

\* The body sendMessage posts (lines 379-384).
WidgetBody(msg) ==
  [message |-> msg,
   consentToLog |-> IF consent = "yes" THEN "true" ELSE "false",
   sessionId |-> "s1"]

\* render() (lines 419-432) after state.messages has become ms.
Render(ms) ==
  /\ messages' = ms
  /\ shown' = RenderMessages(ms)

\* "No thanks" or "Continue" is clicked; the buttons exist only while the
\* widget is gated (lines 301, 355-356).
ChooseConsent(c) ==
  /\ Gated
  /\ consent' = c
  /\ Render(messages)
  /\ UNCHANGED <<config, world, caches, locals, ghost, busy, open>>

\* The launcher or the close button of the floating panel is clicked
\* (lines 345-346).
ToggleOpen ==
  /\ open' = ~open
  /\ Render(messages)
  /\ UNCHANGED <<config, world, caches, locals, ghost, consent, busy>>

\* line 364 with the busy flag alone.
BlockedWhileBusy == busy

\* line 364 with the consent gate alone.
BlockedWhileGated == Gated

\* line 364: sendMessage returns at once while a request is in flight or the
\* consent is undecided.  Every handler bound by any render reads the same
\* state object.
Blocked == busy \/ Gated

\* sendMessage up to its fetch (lines 362-385), and the request reaching the
\* handler as invocation r.
WidgetSend(r, input) ==
  /\ ~Blocked
  /\ Trim(input) # <<>>
  /\ busy' = TRUE
  /\ Render(Append(messages, [role |-> "user", text |-> Txt(Trim(input))]))
  /\ UNCHANGED <<consent, open>>
  /\ \/ PostMissingMessage(r, WidgetBody(Trim(input)))
     \/ PostCacheHit(r, WidgetBody(Trim(input)), TRUE)
     \/ PostCacheMiss(r, WidgetBody(Trim(input)), TRUE)

\* How the fetch of lines 377-385 and the reading of its body can end: the
\* response arrives whole, it arrives with a body that cannot be read or
\* parsed, or the fetch rejects.
FetchOutcomes == {"delivered", "garbled", "rejected"}

\* resp.ok
ResponseOk(response) == response.status >= 200 /\ response.status <= 299

\* line 390
ServerErrorText(status) == [kind |-> "literal", lit |-> "Server error", txt |-> <<status>>]

\* line 398
FailureText == Lit("Sorry - something went wrong. Please try again.")

\* lines 387-398: the text of the bot message for this response and this
\* outcome of the fetch.
BotText(response, net) ==
  IF net # "delivered" THEN FailureText
  ELSE IF ~ResponseOk(response) THEN ServerErrorText(response.status)
  ELSE IF Truthy(response.reply) THEN Txt(response.reply)
  ELSE Lit("No response available.")

\* Lines 399-403 with a busy flag that is reset only after a bot message of
\* the try block.
BusyAfterSettleNoFinally(net) == net # "delivered"

\* lines 399-403: the finally block resets the flag on every path.
BusyAfterSettle(net) == FALSE

\* Lines 387-398 with a catch block that only warns.
SettledMessagesSilentCatch(response, net) ==
  IF net = "delivered"
  THEN Append(messages, [role |-> "bot", text |-> BotText(response, net)])
  ELSE messages

\* lines 387-398: state.messages once the fetch has settled.
SettledMessages(response, net) ==
  Append(messages, [role |-> "bot", text |-> BotText(response, net)])

\* The fetch of invocation r settles: the rest of sendMessage (lines 387-403).
WidgetReceive(r, net) ==
  /\ Return(r)
  /\ busy' = BusyAfterSettle(net)
  /\ Render(SettledMessages(res[r], net))
  /\ UNCHANGED <<consent, open>>

\* The handler works on a request of the widget, served as invocation r: a
\* pack request or the OpenAI call (with an outcome from U) settles and the
\* code that awaited it runs.
ServerStep(R, U) ==
  \/ \E r \in R, l \in LayerSet : \E resp \in PackResponses(l, 0) :
       FetchDone(r, l, resp) /\ UNCHANGED widget
  \/ \E r \in R : \E resp \in PackResponses("websiteOverlay", 0) :
       PassDone(r, resp) /\ UNCHANGED widget
  \/ \E r \in R, u \in U, sink \in SinkOutcomes :
       OpenAIDone(r, u, sink) /\ UNCHANGED widget

\* The fetch of the widget settles, one way or another.
Settle(R) == \E r \in R, net \in FetchOutcomes : WidgetReceive(r, net)

\* The visitor's clicks and key presses.
Visitor(R) ==
  \/ \E c \in {"yes", "no"} : ChooseConsent(c)
  \/ ToggleOpen
  \/ \E r \in R, input \in Inputs : WidgetSend(r, input)

\* The widget of one visitor and the handler that serves it.
NextWidget ==
  \/ Visitor(Reqs)
  \/ ServerStep(Reqs, UpstreamOutcomes)
  \/ Settle(Reqs)
  \/ Tick

SpecWidget == Init /\ [][NextWidget]_vars

\* The OpenAI call is rejected or answers 200.
SettlingOutcomes == {u \in UpstreamOutcomes : u.rejected \/ u.status = 200}

\* The widget and the handler, with a server that answers every request and
\* an event loop that runs every continuation whose awaited promise has
\* settled: each fetch of the widget settles.
NextSettling ==
  \/ Visitor({1})
  \/ ServerStep({1}, SettlingOutcomes)
  \/ Settle({1})

SpecSettling ==
  /\ Init
  /\ [][NextSettling]_vars
  /\ WF_vars(ServerStep({1}, SettlingOutcomes))
  /\ WF_vars(Settle({1}))

\* ------------------------------------------------------------- claims
\* The invocations that are inside loadPromptPacksWithCache with a pass under
\* way (awaiting one of the three httpsTextGet calls).
InPass == {r \in Reqs : pc[r] \in LayerSet}
\* The invocations that hold the value the pack-cache lookup returned.
HasPacks == {r \in Reqs : pc[r] = "openai"}
ServedFromCache(r) == r \in HasPacks /\ packs[r].meta.cache = "hit"
LayerTexts(d) == [l \in LayerSet |-> d[l]]

\* C1: single-flight resolution: however many callers arrive while the entry
\* is absent or expired, at most one resolution pass is in flight at any time.
C1_SingleFlight == Cardinality(InPass) <= 1

\* C2: a cache hit returns the stored content: all values the lookup returned
\* for one entry (the pass that built it and every hit on it) carry the same
\* three layer texts and give the same composed document, and a hit on the
\* entry still stored carries the stored texts, whatever the website serves by
\* then.
C2_HitReturnsStored ==
  \A r \in Reqs : ServedFromCache(r) =>
    /\ \A q \in HasPacks : packs[q].meta.pass = packs[r].meta.pass =>
         /\ LayerTexts(packs[q]) = LayerTexts(packs[r])
         /\ BuildDeveloperInstructionsFromPacks(packs[q])
              = BuildDeveloperInstructionsFromPacks(packs[r])
    /\ _packCache.data.meta.pass = packs[r].meta.pass =>
         LayerTexts(_packCache.data) = LayerTexts(packs[r])

\* C2 witness: a hit was served while the website already publishes a newer
\* revision of core than the one the entry was built from, next to the value
\* the building pass returned.
C2_Witness ==
  \E r, q \in Reqs :
    /\ r # q
    /\ ServedFromCache(r)
    /\ q \in HasPacks /\ packs[q].meta.cache = "miss"
    /\ packs[q].meta.pass = packs[r].meta.pass
    /\ packs[r].meta.fetched["core"].source = "https"
    /\ packs[r].meta.fetched["core"].etag < remoteVer

\* C3: a cache hit performs no I/O: a request served from the cache has made
\* no remote pack fetch and no local file-system call (directory listing, stat
\* or file read).
C3_HitNoIO == \A r \in Reqs : ServedFromCache(r) => io[r] = <<>>

AllResolved(d) == \A l \in LayerSet : d.meta.fetched[l].source # "null"

\* C4 as claimed: a miss rebuilds every layer and stores an entry whose
\* expiresAt is the clock value at which the call observed the miss, plus TTL.
C4_ExpiresAtFromMiss ==
  _packCache.data # NoData =>
    /\ AllResolved(_packCache.data)
    /\ _packCache.expiresAt = _packCache.data.meta.startedAt + PACK_TTL_MS

\* C4 as amended: a call with a usable message that finds no valid entry
\* starts a pass; the pass resolves every layer and only then stores the
\* entry, whose expiresAt is the clock value at the moment of storing, plus
\* TTL; the value the call returns is the stored data object.
C4_ExpiresAtFromStore ==
  [][ /\ \A r \in Reqs :
           (pc[r] = "idle" /\ req'[r] # NoReq /\ ParseUserMessage(req'[r]) # <<>> /\ ~CacheValid)
             => (pc'[r] = "core" /\ meta'[r].startedAt = now /\ meta'[r].cache = "miss")
      /\ _packCache' # _packCache =>
           /\ _packCache'.expiresAt = now' + PACK_TTL_MS
           /\ AllResolved(_packCache'.data)
           /\ \E r \in Reqs :
                /\ pc[r] = "websiteOverlay"
                /\ _packCache'.data.meta = [meta[r] EXCEPT !.fetched["websiteOverlay"] =
                                              _packCache'.data.meta.fetched["websiteOverlay"]]
                /\ pc'[r] = "openai" => packs'[r] = _packCache'.data
    ]_vars

\* C4 witness: an entry is stored by a pass during which the clock advanced.
C4_Witness ==
  /\ _packCache.data # NoData
  /\ _packCache.expiresAt = _packCache.data.meta.startedAt + 1 + PACK_TTL_MS

WellFormed(d) ==
  /\ \A l \in LayerSet : IsString(d[l])
  /\ AllResolved(d)
  /\ d.meta.cache \in {"miss", "hit"}

\* C5: with a configured TTL of zero or less the stored entry is never valid,
\* no call is answered from the cache, and what a call returns (and stores) is
\* a well-formed result of its own pass.
C5_NonPositiveTtlAlwaysMiss ==
  PACK_TTL_MS <= 0 =>
    /\ ~CacheValid
    /\ \A r \in Reqs : ~ServedFromCache(r)
    /\ \A r \in HasPacks : WellFormed(packs[r]) /\ packs[r].meta.cache = "miss"
    /\ _packCache.data # NoData => WellFormed(_packCache.data)

\* C5 witness: the TTL is zero or less and a pass is under way that started at
\* the very clock value at which the stored entry was stored.
C5_Witness ==
  /\ PACK_TTL_MS <= 0
  /\ _packCache.data # NoData
  /\ \E r \in InPass : meta[r].startedAt = _packCache.expiresAt - PACK_TTL_MS

FromOnePass(d) ==
  /\ AllResolved(d)
  /\ \A l \in LayerSet : IsString(d[l]) /\ d.origin[l] = d.meta.pass

\* C6: atomic wholesale replacement: the stored entry and every value the
\* lookup returned hold three layer texts and metadata of one single pass,
\* with every layer resolved.
C6_EntryFromOnePass ==
  /\ _packCache.data # NoData => FromOnePass(_packCache.data)
  /\ \A r \in HasPacks : FromOnePass(packs[r])

\* C6 witness: a request is served from the entry while another pass, not the
\* one that built the entry, has resolved some of its layers and not all.
C6_Witness ==
  \E r, q \in Reqs :
    /\ ServedFromCache(r)
    /\ pc[q] \in {"systemDesigner", "websiteOverlay"}
    /\ meta[q].pass # _packCache.data.meta.pass

IsLocalRead(e) == e[1] \in {"fs.readdir", "fs.stat", "fs.readFile"}
\* The local doc that backs a layer.
LocalDocOf(l) == IF l = "core" THEN "engineeringResponses" ELSE "engineeringModel"

\* C7: ordered, short-circuiting fallback: within a pass every local read
\* comes after a remote fetch, and no local file of a layer whose remote
\* source won is read.
C7_ChainOrder ==
  \A r \in Reqs :
    /\ \A i \in 1..Len(io[r]) :
         (r \in InPass /\ IsLocalRead(io[r][i]))
           => \E j \in 1..(i - 1) : io[r][j][1] = "https.get"
    /\ \A l \in {"core", "systemDesigner"} :
         (r \in HasPacks /\ packs[r].meta.cache = "miss"
            /\ packs[r].meta.fetched[l].source = "https")
           => \A i \in 1..Len(io[r]) : io[r][i] # <<"fs.readFile", LocalDocOf(l)>>

\* The layer has been resolved by the pass of r, which is still under way.
Resolved(r, l) == r \in InPass /\ meta[r].fetched[l].source # "null"
\* The content of the layer's second source, the local doc file.
SecondSource(l, docs) ==
  IF l = "core" THEN docs.engineeringResponses ELSE docs.engineeringModel
Attempts(r, l) == Cardinality({i \in 1..Len(io[r]) : io[r][i] = <<"https.get", l>>})

\* C8: when the remote source of a layer fails and its local file has
\* content, the layer is the file's content, the recorded source names the
\* local fallback, and the remote was attempted exactly once.
C8_FallbackAttribution ==
  \A r \in Reqs : \A l \in {"core", "systemDesigner"} :
    (/\ Resolved(r, l)
     /\ ~meta[r].fetched[l].ok
     /\ Truthy(SecondSource(l, localDocs[r]))
     /\ Trim(SecondSource(l, localDocs[r])) # <<>>)
    => /\ text[r][l] = Trim(SecondSource(l, localDocs[r]))
       /\ meta[r].fetched[l].source = "local-fallback"
       /\ Attempts(r, l) = 1

\* C9: a layer whose sources all fail or are empty resolves to the empty
\* string, its recorded source is "default-empty", and nothing is thrown.
C9_DefaultEmpty ==
  /\ \A r \in Reqs : \A l \in {"core", "systemDesigner"} :
       (/\ Resolved(r, l)
        /\ ~meta[r].fetched[l].ok
        /\ Trim(LocalFallback(l, localDocs[r])) = <<>>)
       => /\ text[r][l] = <<>>
          /\ meta[r].fetched[l].source = "default-empty"
  /\ (_packCache.data # NoData /\ ~_packCache.data.meta.fetched["websiteOverlay"].ok)
       => /\ _packCache.data.websiteOverlay = <<>>
          /\ _packCache.data.meta.fetched["websiteOverlay"].source = "default-empty"

UpstreamOk(u) == ~u.rejected /\ RespOk(u) /\ Truthy(ExtractOutputText(u))

\* C10: failures of pack fetches and local reads never reach the caller: a
\* request whose text-generation call succeeded is answered 200 with ok, and
\* every error response comes from a request without a usable message (400),
\* or with a sessionId that cannot be converted to a string (500), from a
\* text-generation call that failed, or from callOpenAI's refusal to call
\* without an API key.
C10_PackFailuresAbsorbed ==
  \A r \in Reqs : pc[r] = "done" =>
    /\ (UpstreamOk(upstream[r]) /\ Convertible(req[r])) => (res[r].status = 200 /\ res[r].ok)
    /\ ~res[r].ok =>
         \/ res[r].status = 400
         \/ ~Convertible(req[r]) /\ res[r].status = 500
         \/ upstream[r] # NoUpstream /\ ~UpstreamOk(upstream[r])
         \/ ~OPENAI_API_KEY /\ res[r].error = "Missing OPENAI_API_KEY environment variable."

\* C10 witness: a request is answered 200 with ok although the remote source
\* of every layer failed in the last pass, one of them by a fault.
C10_Witness ==
  \E r \in Reqs :
    /\ pc[r] = "done" /\ res[r].ok /\ res[r].status = 200
    /\ faults > 0
    /\ _packCache.data # NoData
    /\ \A l \in LayerSet : ~_packCache.data.meta.fetched[l].ok

\* The boundary marker and the placeholder of a layer (lines 345-352).
Marker(l) ==
  IF l = "core" THEN Lit("=== CORE PACK (global) ===")
  ELSE IF l = "systemDesigner" THEN Lit("=== PRODUCT PACK: AVToolsSystemDesigner ===")
  ELSE Lit("=== CONTEXT OVERLAY: Website ===")
Placeholder(l) ==
  IF l = "core" THEN Lit("(core pack missing)")
  ELSE IF l = "systemDesigner" THEN Lit("(system-designer pack missing)")
  ELSE Lit("(website overlay pack missing)")
\* Where the line x stands in the document D (0: nowhere).
Pos(D, x) == IF \E i \in 1..Len(D) : D[i] = x THEN CHOOSE i \in 1..Len(D) : D[i] = x ELSE 0
\* The line under the marker of layer l in D.
Section(D, l) ==
  IF Pos(D, Marker(l)) = 0 \/ Pos(D, Marker(l)) = Len(D) THEN Lit("(no section)")
  ELSE D[Pos(D, Marker(l)) + 1]
\* The documents the program composes in this state.
Composed(r) == BuildDeveloperInstructionsFromPacks(packs[r])

\* C12: in every composed document the core section precedes the product
\* section, which precedes the website-overlay section, and each section
\* holds its own layer, whenever and from wherever the layers were resolved.
C12_CompositionOrder ==
  \A r \in HasPacks :
    /\ 0 < Pos(Composed(r), Marker("core"))
    /\ Pos(Composed(r), Marker("core")) < Pos(Composed(r), Marker("systemDesigner"))
    /\ Pos(Composed(r), Marker("systemDesigner")) < Pos(Composed(r), Marker("websiteOverlay"))
    /\ \A l \in LayerSet :
         packs[r][l] # <<>> => Section(Composed(r), l) = Txt(packs[r][l])

\* C12 witness: a document is composed from three non-empty layers of a pass
\* during which the clock advanced.
C12_Witness ==
  \E r \in HasPacks :
    /\ \A l \in LayerSet : packs[r][l] # <<>>
    /\ _packCache.data.meta.pass = packs[r].meta.pass
    /\ _packCache.expiresAt > packs[r].meta.startedAt + PACK_TTL_MS

\* C13: a layer whose resolved content is empty appears as its placeholder
\* under its marker, and the other sections are what they would be if that
\* layer had content.
C13_Placeholders ==
  \A r \in HasPacks : \A l \in LayerSet :
    packs[r][l] = <<>> =>
      /\ Section(Composed(r), l) = Placeholder(l)
      /\ \A k \in LayerSet \ {l} :
           Section(Composed(r), k) =
             Section(BuildDeveloperInstructionsFromPacks([packs[r] EXCEPT ![l] = <<1>>]), k)

\* C13 witness: a document is composed from an empty overlay and a core layer
\* with content.
C13_Witness ==
  \E r \in HasPacks : packs[r].websiteOverlay = <<>> /\ packs[r].core # <<>>

\* C14: the composed document is a function of the three layer texts only:
\* values of the lookup with the same texts give the same document, whatever
\* their metadata, and so does the stored entry.
C14_Deterministic ==
  \A r \in HasPacks :
    /\ Composed(r) =
         BuildDeveloperInstructionsFromPacks([packs[r] EXCEPT !.meta = NewMeta(0, 0)])
    /\ \A q \in HasPacks :
         LayerTexts(packs[q]) = LayerTexts(packs[r]) => Composed(q) = Composed(r)
    /\ (_packCache.data # NoData /\ LayerTexts(_packCache.data) = LayerTexts(packs[r]))
         => BuildDeveloperInstructionsFromPacks(_packCache.data) = Composed(r)

\* C14 witness: two requests compose from the same texts, one served by a hit
\* and one by its own pass, started at different clock values.
C14_Witness ==
  \E r, q \in HasPacks :
    /\ LayerTexts(packs[q]) = LayerTexts(packs[r])
    /\ packs[r].meta.cache = "hit" /\ packs[q].meta.cache = "miss"
    /\ packs[r].meta.startedAt # packs[q].meta.startedAt

\* C15: the diagnostic record of a pass tells, for each layer, the source
\* that supplied the content, the byte length of the content served, and the
\* error of the remote attempt that failed before a fallback was used.
C15_DiagnosticRecord ==
  \A r \in Reqs : \A l \in {"core", "systemDesigner"} :
    Resolved(r, l) =>
      /\ meta[r].fetched[l].bytes = ByteLength(text[r][l])
      /\ meta[r].fetched[l].ok => meta[r].fetched[l].source = "https"
      /\ (~meta[r].fetched[l].ok /\ text[r][l] # <<>>) =>
           /\ meta[r].fetched[l].source = "local-fallback"
           /\ meta[r].fetched[l].error # "null"

\* The invocation is inside a resolution pass that has not completed.
Resolving(r) == pc[r] \in LayerSet \cup {"hung"}

\* C11: every resolution pass eventually completes, whatever the pack
\* servers do: a fetch that is never answered is abandoned after a bounded
\* time and the pass goes on.
C11_PassCompletes == \A r \in Reqs : Resolving(r) ~> ~Resolving(r)

\* A text with every character that is not whitespace replaced by one fixed
\* character.
Redact(s) == [i \in 1..Len(s) |-> IF s[i] = WS THEN WS ELSE 1]
\* The metadata fetchOrFallback can write for layer l when the bodies it sees
\* are redacted.
ContentFreeFetched(l) ==
  {FetchedInit} \cup
  { FetchOrFallback(HttpsTextGet([resp EXCEPT !.raw = Redact(@), !.rev = v]), <<>>).fetched :
      resp \in HttpsRequestGet(l), v \in {NoRev} \cup (0..MaxVer) }
ContentFreeMeta(m) ==
  /\ DOMAIN m = DOMAIN NoData.meta
  /\ m.urls = PACK_URLS /\ m.ttlMs = PACK_TTL_MS
  /\ m.cache \in {"hit", "miss"} /\ m.startedAt \in 0..MaxTime
  /\ \A l \in LayerSet : m.fetched[l] \in ContentFreeFetched(l)

\* C16: diagnostics never carry layer content: the metadata of the packs, the
\* telemetry of a debug POST and the GET bodies hold flags, byte counts,
\* revision markers, locators and error strings only, the same ones a run on
\* redacted texts would give.
C16_NoContentInDiagnostics ==
  /\ \A r \in HasPacks : ContentFreeMeta(packs[r].meta)
  /\ _packCache.data # NoData => ContentFreeMeta(_packCache.data.meta)
  /\ \A r \in Reqs :
       /\ diag[r].kind = "pack" =>
            /\ DOMAIN diag[r] = {"kind", "pack", "cacheExpiresAt"}
            /\ ContentFreeMeta(diag[r].pack)
            /\ diag[r].cacheExpiresAt \in Int
       /\ diag[r].kind \in {"status", "debug"} =>
            \A d \in Docs : diag[r].docsFound[d] \in BOOLEAN
       /\ diag[r].kind = "debug" =>
            /\ DOMAIN diag[r] = {"kind", "docsDirListing", "docsFound", "docPaths", "packConfig"}
            /\ diag[r].docsDirListing \subseteq Docs
            /\ \A d \in Docs : diag[r].docPaths[d] \in {NoPath, d}
            /\ diag[r].packConfig = [PACK_TTL_MS |-> PACK_TTL_MS, PACK_URLS |-> PACK_URLS]

\* C16 witness: a debug POST is answered with telemetry of packs of which one
\* layer was fetched with content and another was not.
C16_Witness ==
  \E r \in Reqs :
    /\ pc[r] = "done" /\ diag[r].kind = "pack"
    /\ diag[r].pack.fetched["core"].bytes > 1
    /\ ~diag[r].pack.fetched["systemDesigner"].ok

\* The transcript records the invocation wrote to the log.
Transcripts(r) ==
  {logged[r][i].payload : i \in {j \in 1..Len(logged[r]) : logged[r][j].tag = "LUCIUS_TRANSCRIPT"}}

\* C17: a transcript record is written only for a request whose consentToLog
\* is truthy and that got a reply; a request without consent leaves nothing
\* in the log.
C17_ConsentGated ==
  \A r \in Reqs :
    /\ Transcripts(r) # {} =>
         (ConsentToLog(req[r]) /\ res[r].ok /\ Truthy(res[r].reply))
    /\ ~ConsentToLog(req[r]) => logged[r] = <<>>

\* C17 witness: a consenting request has its transcript in the log.
C17_Witness ==
  \E r \in Reqs :
    /\ pc[r] = "done" /\ ConsentToLog(req[r])
    /\ \E t \in Transcripts(r) : t.user = ParseUserMessage(req[r]) /\ t.lucius = res[r].reply

C20_TranscriptBounded ==
  \A r \in Reqs : \A t \in Transcripts(r) :
    LET u == ParseUserMessage(req[r])
        y == res[r].reply
    IN /\ Len(t.user) <= UserCap
       /\ Len(t.lucius) <= ReplyCap
       /\ t.user = SubSeq(u, 1, Len(t.user))
       /\ t.lucius = SubSeq(y, 1, Len(t.lucius))
       /\ Len(u) <= UserCap => t.user = u
       /\ Len(y) <= ReplyCap => t.lucius = y

\* C20 witness: a transcript is written for a message and a reply that are
\* both longer than their caps.
C20_Witness ==
  \E r \in Reqs : \E t \in Transcripts(r) :
    /\ Len(ParseUserMessage(req[r])) > UserCap /\ Len(t.user) = UserCap
    /\ Len(res[r].reply) > ReplyCap /\ Len(t.lucius) = ReplyCap

\* C18: once the visitor has declined (consent = "no") the input is enabled,
\* every request of the widget carries consentToLog = false, and the handler
\* writes nothing of them to the log.
C18_DeclinedConsentHonoured ==
  consent = "no" =>
    /\ ~Gated
    /\ \A r \in Reqs :
         /\ req[r] # NoReq => (req[r].consentToLog = "false" /\ ~ConsentToLog(req[r]))
         /\ logged[r] = <<>>

\* C18 witness: after "No thanks" a message was sent and answered with a
\* reply, and no transcript was written.
C18_Witness ==
  /\ consent = "no"
  /\ pc[1] = "done" /\ res[1].ok /\ Truthy(res[1].reply)
  /\ req[1].message # Null
  /\ logged[1] = <<>>

\* ------------------------------------------------------------- upstream failures
\* The handler has answered a POST whose callOpenAI request settled.
Answered(r) == pc[r] = "done" /\ upstream[r] # NoUpstream
\* The API answered with a non-2xx status.
UpstreamRefused(u) == ~u.rejected /\ ~RespOk(u)
\* The API answered 2xx and extractOutputText found nothing to display.
UpstreamNoText(u) == ~u.rejected /\ RespOk(u) /\ ~Truthy(ExtractOutputText(u))

\* C21: when the text-generation API answers with a non-2xx status S, the
\* handler responds with ok = false and HTTP status S; when the request fails
\* with no status at all, it responds with ok = false and status 500.  Neither
\* is ever answered with ok = true.
C21_UpstreamStatusSurfaced ==
  \A r \in Reqs :
    (Answered(r) /\ (upstream[r].rejected \/ UpstreamRefused(upstream[r]))) =>
      /\ ~res[r].ok
      /\ res[r].status = IF upstream[r].rejected THEN 500 ELSE upstream[r].status

\* A request was answered with the 429 the API gave.
C21_Witness ==
  \E r \in Reqs :
    /\ Answered(r)
    /\ upstream[r].status = 429
    /\ res[r].status = 429
    /\ ~res[r].ok

\* Two answered requests differ at most in the payload the API sent and in
\* the text of the exception raised for it.
SameButPayload(r1, r2) ==
  /\ Answered(r1) /\ Answered(r2)
  /\ req[r1] = req[r2]
  /\ upstream[r1].rejected = upstream[r2].rejected
  /\ upstream[r1].status = upstream[r2].status

\* C22: two failing requests that differ only in the upstream error payload
\* or in internal exception detail get the same error body, and the message
\* the API sent never appears in the body returned to the end user.
C22_GenericErrorBody ==
  /\ \A r1, r2 \in Reqs :
       (SameButPayload(r1, r2) /\ ~res[r1].ok /\ ~res[r2].ok) => res[r1].error = res[r2].error
  /\ \A r \in Reqs :
       (Answered(r) /\ ~res[r].ok) => res[r].error # upstream[r].errorMessage

\* C23: a POST whose upstream call returns 2xx with no extractable text and a
\* POST whose upstream connection fails both end in an error response
\* (ok = false), and the error values of the two differ.
C23_NoTextIsNotUnreachable ==
  /\ \A r \in Reqs :
       (Answered(r) /\ (upstream[r].rejected \/ UpstreamNoText(upstream[r]))) => ~res[r].ok
  /\ \A r1, r2 \in Reqs :
       (Answered(r1) /\ Answered(r2) /\ upstream[r1].rejected /\ UpstreamNoText(upstream[r2]))
         => res[r1].error # res[r2].error

\* One request met a refused connection, another a 2xx without text, and
\* both have been answered.
C23_Witness ==
  \E r1, r2 \in Reqs :
    /\ Answered(r1) /\ Answered(r2)
    /\ upstream[r1].rejected
    /\ UpstreamNoText(upstream[r2])
    /\ res[r2].error = NoOutputText
    /\ ~res[r1].ok /\ ~res[r2].ok

\* ------------------------------------------------------------- reply extraction
\* The texts the strategies would yield, in the order they are tried: the
\* flat field, every message item's text blocks, the first item's content.
RECURSIVE MessageTexts(_)
MessageTexts(output) ==
  IF output = <<>> THEN <<>>
  ELSE (IF Head(output).type = "message"
        THEN << Trim(Join(MessageParts(Head(output)))) >> ELSE <<>>)
       \o MessageTexts(Tail(output))
Candidates(json) ==
  IF ~json.parsed THEN <<>>
  ELSE << IF IsString(json.output_text) THEN Trim(json.output_text) ELSE <<>> >>
       \o MessageTexts(json.output)
       \o << Trim(Join(FirstItemParts(json.output))) >>
\* The first non-empty text of a list, or Null.
FirstNonEmpty(ts) ==
  IF SelectSeq(ts, IsNonEmpty) = <<>> THEN Null ELSE Head(SelectSeq(ts, IsNonEmpty))

\* C24: reply extraction returns the first non-empty trimmed text among the
\* flat output_text field, the text blocks of the message items in the output
\* list and the content of the first output item: the reply is that text
\* whenever one of them is non-empty, and there is no reply only when none is.
C24_FirstNonEmptyText ==
  \A r \in Reqs :
    (Answered(r) /\ ~upstream[r].rejected /\ RespOk(upstream[r])) =>
      /\ res[r].reply = FirstNonEmpty(Candidates(upstream[r]))
      /\ res[r].ok <=> FirstNonEmpty(Candidates(upstream[r])) # Null

\* ------------------------------------------------------------- configuration and read-only paths
\* C25: when the API credential is absent, a POST with a valid message ends
\* in an error response carrying the configuration-missing message, no pack is
\* fetched, the text-generation API is not called, and the pack cache is not
\* modified.
C25_MissingKeyFailsFast ==
  ~OPENAI_API_KEY =>
    /\ \A r \in Reqs : pc[r] \notin LayerSet \cup {"openai"}
    /\ \A r \in Reqs :
         (pc[r] = "done" /\ req[r] # NoReq /\ ParseUserMessage(req[r]) # <<>>) =>
           (~res[r].ok /\ res[r].error = "Missing OPENAI_API_KEY environment variable.")
    /\ _packCache.data = NoData

\* The invocation r takes a GET (answered with a status or debug body) or an
\* OPTIONS (answered 204) in this step.
TakesGetOrOptions(r) ==
  /\ pc[r] = "idle" /\ pc'[r] = "done"
  /\ diag'[r].kind \in {"status", "debug"} \/ res'[r].status = 204
\* The I/O events of a log that are requests to a remote server.
RemoteCalls(log) == {i \in 1..Len(log) : log[i][1] = "https.get"}

\* C26: GET (with or without ?debug=1) and OPTIONS requests never start a
\* resolution pass, never call the text-generation API, and leave the pack
\* cache entry and its expiresAt unchanged; the body they return has no field
\* for the API credential.
C26_StatusReadOnly ==
  [][\A r \in Reqs :
       TakesGetOrOptions(r) =>
         /\ _packCache' = _packCache
         /\ RemoteCalls(io'[r]) = {}
         /\ meta'[r] = NoData.meta /\ packs'[r] = NoData
         /\ upstream'[r] = NoUpstream
         /\ res'[r].status \in {200, 204}
         /\ diag'[r].kind = "status" => DOMAIN diag'[r] = {"kind", "docsFound"}
         /\ diag'[r].kind = "debug" =>
              /\ DOMAIN diag'[r] = {"kind", "docsDirListing", "docsFound", "docPaths", "packConfig"}
              /\ DOMAIN diag'[r].packConfig = {"PACK_TTL_MS", "PACK_URLS"}
    ]_vars

\* A debug GET and an OPTIONS have been answered while an entry is stored.
C26_Witness ==
  /\ _packCache.data # NoData
  /\ pc[1] = "done"
  /\ diag[1].kind = "debug" \/ res[1].status = 204

\* ------------------------------------------------------------- request parsing
\* Every string the body offers as a message: its message, input and text
\* fields, the content, text and message of its messages entries, and the
\* body itself when it is a string.
Offered(body) ==
  {body.message, Field(body, "input"), Field(body, "text"), Field(body, "raw")}
  \cup UNION { {MessagesOf(body)[i].content, MessagesOf(body)[i].text, MessagesOf(body)[i].message} :
                 i \in 1..Len(MessagesOf(body)) }
\* Nothing the body offers is a non-blank string.
NoUsableMessage(body) == \A t \in Offered(body) : ~Usable(t)

\* C27: a POST that carries no usable message (message, input, text, the
\* messages entries and a raw string body are all missing, non-string or
\* blank) is answered with status 400 and ok = false, and causes no
\* resolution pass, no text-generation call, no transcript record and no
\* change to the pack cache.
C27_MissingMessageRejected ==
  [][\A r \in Reqs :
       (pc[r] = "idle" /\ req'[r] # NoReq /\ NoUsableMessage(req'[r])) =>
         /\ pc'[r] = "done"
         /\ res'[r].status = 400 /\ ~res'[r].ok
         /\ RemoteCalls(io'[r]) = {}
         /\ upstream'[r] = NoUpstream
         /\ logged'[r] = <<>>
         /\ _packCache' = _packCache
    ]_vars

\* The indices of the messages entries that carry a text for a user turn:
\* the role, lower-cased, is user or human or there is none, and the candidate
\* c(m) is a non-blank string.
UserTurns(ms, c(_)) ==
  {i \in 1..Len(ms) : ms[i].role # "unconvertible"
                      /\ RoleOf(ms[i]) \in {"user", "human", ""} /\ Usable(c(ms[i]))}
Last(S) == CHOOSE i \in S : \A j \in S : j <= i
OnlyContent(m) == m.content

\* The result of parseUserMessage as stated: message, input, text, the content
\* of the last user entry of messages, the raw string body, else "".
ClaimedOutcome(body) ==
  LET ms == MessagesOf(body)
      turns == UserTurns(ms, OnlyContent)
  IN [threw |-> FALSE,
      text |-> IF Usable(body.message) THEN Trim(body.message)
               ELSE IF Usable(Field(body, "input")) THEN Trim(body.input)
               ELSE IF Usable(Field(body, "text")) THEN Trim(body.text)
               ELSE IF turns # {} THEN Trim(ms[Last(turns)].content)
               ELSE IF Usable(Field(body, "raw")) THEN Trim(body.raw)
               ELSE <<>>]

\* The same with the candidate of an entry being the first of its content,
\* text and message that is not null, and with an exception when an entry
\* after the last user entry (or any entry, when there is none) has a role
\* that cannot be converted to a string.
AmendedOutcome(body) ==
  LET ms == MessagesOf(body)
      turns == UserTurns(ms, ContentOf)
      fields == Usable(body.message) \/ Usable(Field(body, "input")) \/ Usable(Field(body, "text"))
      throws == /\ ~fields
                /\ \E i \in 1..Len(ms) :
                     ms[i].role = "unconvertible" /\ \A j \in turns : j < i
  IN [threw |-> throws,
      text |-> IF throws THEN <<>>
               ELSE IF Usable(body.message) THEN Trim(body.message)
               ELSE IF Usable(Field(body, "input")) THEN Trim(body.input)
               ELSE IF Usable(Field(body, "text")) THEN Trim(body.text)
               ELSE IF turns # {} THEN Trim(ContentOf(ms[Last(turns)]))
               ELSE IF Usable(Field(body, "raw")) THEN Trim(body.raw)
               ELSE <<>>]

ConversionError == "Cannot convert object to primitive value"

\* What the handler does with the request of invocation r is what it does
\* for a parseUserMessage outcome of want: it goes on with the text, answers
\* 400 for the empty text, answers 500 for the exception.
ParsesAs(r, want) ==
  /\ pc[r] \in LayerSet \cup {"openai"} =>
       (~want.threw /\ want.text # <<>> /\ userText[r] = want.text)
  /\ (pc[r] = "done" /\ res[r].status = 400) => (~want.threw /\ want.text = <<>>)
  /\ (pc[r] = "done" /\ res[r].error = ConversionError) => want.threw
  /\ want.threw => (pc[r] = "done" /\ res[r].error = ConversionError)
  /\ (~want.threw /\ want.text = <<>>) => (pc[r] = "done" /\ res[r].status = 400)
  /\ userText[r] = Trim(userText[r])

\* C30: the result of parseUserMessage is the trimmed body.message if it is a
\* non-blank string; else the trimmed body.input; else the trimmed body.text;
\* else the trimmed content of the last entry of body.messages whose role is
\* user, human or absent and whose content is a non-blank string; else the
\* trimmed raw string body; else the empty string; it is never blank but
\* non-empty.
C30_ParsePrecedence == \A r \in Reqs : req[r] # NoReq => ParsesAs(r, ClaimedOutcome(req[r]))

\* C30 as amended: as above, but the text of a messages entry is the first of
\* its content, text and message that is not null, the role is compared
\* lower-cased, and the call throws (the handler answers 500) when it meets,
\* before a user entry with text, an entry whose role cannot be converted to
\* a string.
C30_ParsePrecedenceAmended ==
  \A r \in Reqs : req[r] # NoReq => ParsesAs(r, AmendedOutcome(req[r]))

\* The handler goes on with the text field of the last of two entries, the
\* first of which has content.
C30_Witness ==
  \E r \in Reqs :
    /\ pc[r] \in LayerSet
    /\ Len(MessagesOf(req[r])) = 2
    /\ MessagesOf(req[r])[2].content = Null
    /\ userText[r] = MessagesOf(req[r])[2].text
    /\ Usable(MessagesOf(req[r])[1].content)

\* ------------------------------------------------------------- remote or fallback
\* The httpsTextGet of layer l settles in this step of invocation r.
FetchSettles(r, l) == pc[r] = l /\ pc'[r] # l /\ pc'[r] # "hung"
\* The text fetchOrFallback returned for the layer and the source it recorded,
\* after that step.
LayerContent(r, l) ==
  IF l = "websiteOverlay" THEN _packCache'.data.websiteOverlay ELSE text'[r][l]
LayerSource(r, l) ==
  IF l = "websiteOverlay" THEN _packCache'.data.meta.fetched[l].source
  ELSE meta'[r].fetched[l].source
\* The step met the published pack: a 2xx answer whose body is not blank.
\* Every other answer of a server that has the pack counts as a fault.
GotPublished(l) == PACK_URLS[l] = "ok" /\ faults' = faults
\* The non-blank bodies the server of layer l can send, trimmed.
RemoteTexts(l) == {Trim(resp.raw) : resp \in HttpsRequestGet(l)} \ {<<>>}

\* C28: remote content is used for a layer if and only if the remote answers
\* with a 2xx status and a body that is non-empty after trimming; then the text
\* fetchOrFallback returns is the trimmed body and the recorded source is
\* "https"; in every other case (non-2xx, connection error, blank body) it is
\* the trimmed local fallback, and no remote body is used.
C28_RemoteIffOkAndNonBlank ==
  [][\A r \in Reqs : \A l \in LayerSet :
       FetchSettles(r, l) =>
         IF GotPublished(l)
         THEN /\ LayerContent(r, l) = Trim(RemoteBody(l, remoteVer))
              /\ LayerSource(r, l) = "https"
         ELSE /\ LayerContent(r, l) = Trim(LocalFallback(l, localDocs[r]))
              /\ LayerSource(r, l) # "https"
              /\ LayerContent(r, l) \notin RemoteTexts(l)
    ]_vars

\* A pass took core from the website and, after a 404 with a body for
\* systemDesigner, that layer from the local file.
C28_Witness ==
  /\ pc[1] = "websiteOverlay"
  /\ PACK_URLS["systemDesigner"] = "missing"
  /\ text[1]["core"] = Trim(RemoteBody("core", remoteVer))
  /\ meta[1].fetched["systemDesigner"].source = "local-fallback"
  /\ text[1]["systemDesigner"] = Trim(FileText("engineeringModel", 1))

\* ------------------------------------------------------------- local docs cache
\* Invocation r calls loadLuciusDocs in this step: it takes a GET, or a POST
\* that has a message.
CallsLoadLuciusDocs(r) ==
  /\ pc[r] = "idle" /\ pc'[r] # "idle"
  /\ res'[r].status \notin {204, 400}
  /\ res'[r].error # ConversionError
\* The files the step read.
FilesRead(r) == {io'[r][i][2] : i \in {j \in 1..Len(io'[r]) : io'[r][j][1] = "fs.readFile"}}

\* C29: loadLuciusDocs returns the cached docs without reading any file as
\* long as the matched doc paths and their modification times are those of
\* the call that cached them; after a matched file's mtime or a matched path
\* has changed, the next call reads every matched file again, returns the new
\* content and caches it under the new key.
C29_LocalDocsKeyedByMtime ==
  [][\A r \in Reqs :
       CallsLoadLuciusDocs(r) =>
         IF _cachedLocalDocs # NoDocs /\ _cachedLocalKey = [d \in Docs |-> fs[d]]
         THEN /\ _cachedLocalDocs' = _cachedLocalDocs
              /\ FilesRead(r) = {}
         ELSE /\ FilesRead(r) = {d \in Docs : fs[d] > 0}
              /\ _cachedLocalKey' = [d \in Docs |-> fs[d]]
              /\ \A d \in Docs :
                   _cachedLocalDocs'[d] =
                     IF fs[d] > 0 /\ faults' = faults THEN FileText(d, fs[d]) ELSE Null
    ]_vars

\* A call made after a doc file was rewritten has read it again and holds the
\* text of the rewritten file.
C29_Witness ==
  \E d \in Docs :
    /\ pc[1] \in LayerSet \cup {"openai"}
    /\ reqCount >= 2
    /\ fs[d] = 2
    /\ <<"fs.readFile", d>> \in {io[1][i] : i \in 1..Len(io[1])}
    /\ _cachedLocalKey[d] = 2
    /\ _cachedLocalDocs[d] = FileText(d, 2)

\* ------------------------------------------------------------- the widget's sends
\* The invocations serving a request of the widget that has not settled.
InFlight == {r \in Reqs : pc[r] # "idle"}

\* C31: while the visitor's consent is undecided the widget has sent no
\* request: no invocation of the endpoint is running or was ever started, and
\* the history holds the greeting alone.
C31_ConsentGate ==
  (consent # "yes" /\ consent # "no") =>
    /\ InFlight = {}
    /\ reqCount = 0
    /\ \A r \in Reqs : req[r] = NoReq
    /\ messages = << Greeting >>

\* C31 witness: the consent is undecided and the panel with its input and
\* Send button has been opened.
C31_Witness == consent = "null" /\ open /\ ~busy /\ reqCount = 0

\* ------------------------------------------------------------- the chat history
\* The history ms is the beginning of the history ns.
IsPrefix(ms, ns) == Len(ms) <= Len(ns) /\ SubSeq(ns, 1, Len(ms)) = ms

\* The container shows every message of the history, in order.
DisplaysHistory ==
  /\ Len(shown) = Len(messages)
  /\ \A i \in 1..Len(messages) :
       /\ shown[i].text = messages[i].text
       /\ shown[i].cls = (IF messages[i].role \in {"user", "bot"} THEN messages[i].role ELSE "sys")

\* C32: state.messages only grows: every step keeps the entries it had, in
\* their order, and after every step (each ends with a render: open/close,
\* consent choice, send start, send finish) the container shows every message
\* of state.messages in order.
C32_HistoryKept == [][IsPrefix(messages, messages') /\ DisplaysHistory']_vars

\* C32 witness: the panel is open, a question was asked and answered, and the
\* container shows greeting, question and answer.
C32_Witness ==
  /\ open /\ ~busy
  /\ Len(messages) = 3 /\ Len(shown) = 3
  /\ shown[2].cls = "user" /\ shown[3].cls = "bot"
  /\ shown[3].text = messages[3].text

\* ------------------------------------------------------------- overlapping passes
\* The revision of the remote pack l the entry c was built from (NoRev: the
\* layer did not come from the remote).
StoredRev(c, l) == c.data.meta.fetched[l].etag

\* C33: the stored content never regresses: whenever an entry is stored over
\* an entry that holds a remote revision of a pack, the new entry does not
\* hold an older remote revision of that pack.
C33_NoRegression ==
  [][\A l \in LayerSet :
       (_packCache' # _packCache /\ StoredRev(_packCache, l) # NoRev
          /\ StoredRev(_packCache', l) # NoRev)
       => StoredRev(_packCache', l) >= StoredRev(_packCache, l)]_vars

\* ------------------------------------------------------------- debug telemetry
\* C34: in the answer to a "TEST LOGGING:" POST the reported cacheExpiresAt
\* is the expiresAt of the cache entry the request's packs came from, the one
\* whose metadata is reported as debug.pack.
C34_TelemetryConsistent ==
  \A r \in Reqs :
    (pc[r] = "done" /\ diag[r].kind = "pack") =>
      diag[r].cacheExpiresAt = servedExpiry[r]

\* ------------------------------------------------------------- hits and the stored entry
\* Invocation r takes its packs from the cache in this step.
TakesHit(r) ==
  /\ pc[r] = "idle" /\ pc'[r] = "openai"
  /\ packs'[r].meta.cache = "hit"

\* C35: a step that serves a hit leaves _packCache as it was (layer texts,
\* metadata with cache = "miss", expiresAt) and happens before the entry's
\* expiresAt; expiresAt changes only when a finishing pass stores an entry,
\* and is then the time of the store plus the TTL.
C35_HitLeavesCacheUntouched ==
  [][/\ \A r \in Reqs :
          TakesHit(r) =>
            /\ _packCache' = _packCache
            /\ _packCache.data.meta.cache = "miss"
            /\ now < _packCache.expiresAt
            /\ packs'[r].meta.pass = _packCache.data.meta.pass
     /\ _packCache'.expiresAt # _packCache.expiresAt =>
          /\ \E r \in Reqs : pc[r] = "websiteOverlay" /\ pc'[r] # "websiteOverlay"
          /\ _packCache'.expiresAt = now + PACK_TTL_MS]_vars

\* C35 witness: a request has been served from the cache and the stored entry
\* still says "miss" and has the expiresAt the request found.
C35_Witness ==
  \E r \in Reqs :
    /\ pc[r] = "openai"
    /\ packs[r].meta.cache = "hit"
    /\ _packCache.data.meta.cache = "miss"
    /\ _packCache.expiresAt = servedExpiry[r]
    /\ now < _packCache.expiresAt

\* ------------------------------------------------------------- after a failed fetch
\* The stored entry took layer l from a fallback although the website has the
\* pack: the remote failed during the pass that built the entry.
FailedIn(l) ==
  /\ _packCache.data # NoData
  /\ PACK_URLS[l] = "ok"
  /\ _packCache.data.meta.fetched[l].source \in {"local-fallback", "fallback-empty"}

\* Invocation r is a POST with a usable message that arrives in this step.
Arrives(r) == pc[r] = "idle" /\ pc'[r] # "idle" /\ ParseUserMessage(req'[r]) # <<>>

\* C36: while the stored entry holds a fallback for layer l because the remote
\* failed, every call that arrives at or after the entry's expiresAt starts a
\* new pass with fresh metadata, and when that pass's request for l meets the
\* healthy remote the layer is the trimmed remote body with source "https".
C36_FallbackNotSticky ==
  [][\A r \in Reqs : \A l \in LayerSet :
       FailedIn(l) =>
         /\ (Arrives(r) /\ now >= _packCache.expiresAt) =>
              /\ pc'[r] = "core"
              /\ meta'[r] = NewMeta(now, reqCount')
         /\ (FetchSettles(r, l) /\ GotPublished(l) /\ meta[r].startedAt >= _packCache.expiresAt) =>
              /\ LayerSource(r, l) = "https"
              /\ LayerContent(r, l) = Trim(RemoteBody(l, remoteVer))
    ]_vars

\* C36 witness: the stored entry has expired and holds the local fallback for
\* core after a failed request; the next call's pass has taken core from the
\* website.
C36_Witness ==
  /\ FailedIn("core")
  /\ now >= _packCache.expiresAt
  /\ pc[1] = "systemDesigner"
  /\ meta[1].startedAt >= _packCache.expiresAt
  /\ meta[1].fetched["core"].source = "https"
  /\ text[1]["core"] = Trim(RemoteBody("core", remoteVer))

\* ------------------------------------------------------------- one request at a time
\* C37: at most one request of the widget is in flight, and one is in flight
\* only while state.busy is true.
C37_OneInFlight ==
  /\ Cardinality(InFlight) <= 1
  /\ InFlight # {} => busy

\* C37 witness: a second question is in flight after the first one was
\* answered; the other invocation is idle.
C37_Witness ==
  /\ busy
  /\ Cardinality(InFlight) = 1
  /\ Len(messages) = 4
  /\ messages[4].role = "user"

\* ------------------------------------------------------------- the busy flag
\* C38: every send that set state.busy is followed by a state in which the
\* flag is false again and the container shows the whole history, whatever
\* way the fetch settles.
C38_BusyReleased == busy ~> (~busy /\ DisplaysHistory)

\* C38 witness: the fetch of a send rejected or brought an unreadable body,
\* the failure text was appended, and the flag is false.
C38_Witness ==
  /\ ~busy
  /\ Len(messages) = 3
  /\ messages[2].role = "user"
  /\ messages[3] = [role |-> "bot", text |-> FailureText]
  /\ InFlight = {}

\* ------------------------------------------------------------- one reply per question
\* The texts a bot message can carry: a reply of the endpoint, the
\* server-error text, the text for a 2xx answer without a reply, or the
\* generic failure text.
IsBotText(t) ==
  \/ t.kind = "text" /\ t.txt # <<>>
  \/ t.kind = "literal" /\ t.lit = "Server error"
  \/ t = Lit("No response available.")
  \/ t = FailureText

\* C39: the history is the greeting followed by one user message per send,
\* each followed by exactly one bot message once its request has settled:
\* after the greeting it alternates user, bot, and it ends with a user
\* message exactly while a request is in flight.
C39_OneReplyPerQuestion ==
  /\ messages[1] = Greeting
  /\ Len(messages) = 1 + 2 * reqCount - (IF busy THEN 1 ELSE 0)
  /\ \A i \in 2..Len(messages) :
       IF i % 2 = 0
       THEN messages[i].role = "user" /\ messages[i].text.kind = "text"
       ELSE messages[i].role = "bot" /\ IsBotText(messages[i].text)

\* C39 witness: two questions have settled, the first with a server error
\* and the second with a reply, and the history alternates.
C39_Witness ==
  /\ ~busy /\ reqCount = 2
  /\ Len(messages) = 5
  /\ messages[3].text.lit = "Server error"
  /\ messages[5].text.kind = "text"

====
